---- MODULE Spec2Model ----
(***************************************************************************)
(* The campus compute grid: the manager's store (manager/database.py),     *)
(* the manager's worker sessions (manager/server.py) and the worker        *)
(* client's main loop (worker/client.py).                                  *)
(*                                                                         *)
(* Every store operation opens its own sqlite connection.  A SELECT runs   *)
(* outside any transaction (python's sqlite3 opens one only before the     *)
(* first INSERT/UPDATE/DELETE); the statements from the first write to     *)
(* commit() are one write transaction: invisible to other connections      *)
(* until the commit, and exclusive of every other writer (dbLock).         *)
(***************************************************************************)
EXTENDS Integers, Sequences, FiniteSets, TLC

\* ---------------------------------------------------------------- bounds
MaxUsers == 1         \* user ids 1..MaxUsers
MaxConns == 2         \* accepted connections; connection c registers worker id c
MaxJobs == 3          \* job ids 1..MaxJobs (uuid4 values, never reused)
MaxTime == 1          \* the clock stops after MaxTime ticks
TicksPerSec == 1      \* clock ticks per second (CURRENT_TIMESTAMP counts seconds)
MaxTx == 3            \* rows of credit_transactions
MaxLoad == 3          \* connections accepted plus jobs submitted in one run
WebThreads == 1       \* concurrent dashboard requests
SubmitThreads == 2    \* concurrent submit_job requests in SpecSubmit
MaxSleeps == 4        \* sleeps of the health monitor in SpecHealth
MaxFrames == 2        \* messages written to the stream in SpecFrame
MaxCalls == 2         \* calls of calculate_job_cost counted in SpecCost
MaxQueue == 2         \* jobs submitted in SpecDispatch
MaxPieces == 2        \* pieces in which one socket.send reaches the stream
MaxEntries == 2       \* entries of the directory swept by _collect_output_files
MaxRuns == 2          \* calls of SandboxExecutor.execute counted in SpecSandbox
MaxFiles == 2         \* entries in the files list of one result in SpecFiles

\* ------------------------------------------------------- program constants
STARTING_CREDITS == 100
base_cost == 5
MIN_JOB_COST == 5        \* config: minimum credit cost for a job
heartbeat_timeout == 60    \* CONFIG['heartbeat_timeout'], seconds
monitor_sleep == 30        \* health_monitor: time.sleep(30)
header_len == 10           \* zfill(10) / recv(10)
max_file_size == 10485760   \* 10*1024*1024 bytes
max_retries == 3           \* complete_job: attempts on a locked database
chunk_size == 65536        \* the manager's recv(min(65536, ...))
client_chunk_size == 8192  \* the worker client's recv(min(8192, ...))

NoId == 0             \* SQL NULL / python None for an id
NoTime == -1          \* SQL NULL for a timestamp
NoText == "NULL"      \* SQL NULL / python None for a text column

UserIds == 1..MaxUsers
ConnIds == 1..MaxConns
JobIds == 1..MaxJobs

\* specs a worker may report at registration: W_A and W_B of the spec's scenario
WorkerSpecs ==
  { [cpu_cores |-> 4, ram_gb |-> 8, gpu_name |-> NoText],
    [cpu_cores |-> 2, ram_gb |-> 4, gpu_name |-> "gpu"] }

\* resource demands of a submitted job (cpu, ram, gpu, timeout)
JobDemands ==
  { [cpu |-> 3, ram |-> 1, gpu |-> 0, timeout |-> 300],
    [cpu |-> 1, ram |-> 1, gpu |-> 1, timeout |-> 300] }

\* a demand that most of a starting balance pays for (SpecSubmit)
LongDemands == { [cpu |-> 4, ram |-> 8, gpu |-> 1, timeout |-> 3600] }

Priorities == {5, 9}
Outputs == {"out"}

VARIABLES
  now,            \* the wall clock, in ticks
  credits,        \* users.credits: user id -> balance
  transactions,   \* credit_transactions, in insertion order
  dbWorkers,      \* workers table: worker id -> row
  jobs,           \* jobs table: job id -> row
  job_queue,      \* job_queue table: set of rows
  jobSeq,         \* sqlite_sequence of job_queue (AUTOINCREMENT): rows ever inserted
  activity,       \* activity_logs, without its id and created_at columns
  dbLock,         \* the connection holding sqlite's write lock, or NoId
  workers,        \* WorkerManager.workers: worker id -> info
  connections,    \* WorkerManager.connections: ids with a socket
  pc,             \* position of each session thread (handle_worker)
  sel,            \* the row a session thread read (job of get_next_job_for_worker
                  \* or of complete_job) and the result message it is handling
  m2w,            \* frames sent by the manager, not yet read by the worker
  w2m,            \* frames sent by the worker, not yet read by the manager
  web,            \* dashboard request threads (submit_job)
  wpc,            \* position of each worker client's main loop
  monitor,        \* the health monitor thread: position and its timed_out list
  wire,           \* one byte stream: frames to send, bytes in flight, the reader
  calc,           \* one caller of calculate_job_cost: arguments and result
  disk,           \* the manager's file system: directories and files
  box,            \* one call of SandboxExecutor.execute: the run and the result
  sweep,          \* one call of _collect_output_files: the directory and the entries returned
  sock            \* the worker client's socket: bytes written, and its two sending threads

vars == << now, credits, transactions, dbWorkers, jobs, job_queue, jobSeq, activity, dbLock,
           workers, connections, pc, sel, m2w, w2m, web, wpc, monitor, wire, calc, disk, box, sweep, sock >>

dbVars == << credits, transactions, dbWorkers, jobs, job_queue, jobSeq, activity >>
memVars == << workers, connections >>
\* what runs beside the sessions and the dashboard
sideVars == << monitor, wire, calc, disk, box, sweep, sock >>

\* ------------------------------------------------------------- helpers
\* SQL CURRENT_TIMESTAMP: 'YYYY-MM-DD HH:MM:SS', whole seconds
CURRENT_TIMESTAMP == now \div TicksPerSec

\* python datetime.now(): full clock resolution
datetime_now == now

RECURSIVE SumAmounts(_, _)
SumAmounts(txs, u) ==
  IF txs = << >> THEN 0
  ELSE (IF Head(txs).user_id = u THEN Head(txs).amount ELSE 0)
       + SumAmounts(Tail(txs), u)

\* mutant: the cost without its time component
calculate_job_cost_NoTime(cpu, ram, gpu, timeout) ==
  base_cost + cpu * 2 + ram + gpu * 10

calculate_job_cost(cpu, ram, gpu, timeout) ==
  base_cost + cpu * 2 + ram + gpu * 10 + (timeout \div 60)

NoSel == [job |-> NoId, worker_id |-> NoId, credit_reward |-> 0,
          success |-> FALSE, output |-> NoText, attempt |-> 0]

IdleWeb == [pc |-> "idle", user |-> NoId, cpu |-> 0, ram |-> 0, gpu |-> 0,
            timeout |-> 0, priority |-> 0, cost |-> 0, result |-> "none"]

\* a peer that is not a modelled client / a client that has not started
AnyPeer == [pc |-> "any", job |-> NoId]
NewClient == [pc |-> "start", job |-> NoId]

\* the state after database.init_db() and ManagerServer(), before any
\* connection
InitCore ==
  /\ now = 0
  /\ credits = << >>
  /\ transactions = << >>
  /\ dbWorkers = << >>
  /\ jobs = << >>
  /\ job_queue = {}
  /\ jobSeq = 0
  /\ activity = {}
  /\ dbLock = NoId
  /\ workers = << >>
  /\ connections = {}
  /\ pc = [c \in ConnIds |-> "await_register"]
  /\ sel = [c \in ConnIds |-> NoSel]
  /\ m2w = [c \in ConnIds |-> << >>]
  /\ w2m = [c \in ConnIds |-> << >>]

InitManager ==
  /\ InitCore
  /\ web = [t \in 1..WebThreads |-> IdleWeb]

\* the health monitor before its first check
NewMonitor == [pc |-> "check", timed_out |-> {}]

\* a stream nothing was written to, read by the manager's _receive_message
NoWire == [out |-> << >>, stream |-> << >>, pc |-> "header", size |-> 0,
           data |-> << >>, got |-> << >>, sent |-> << >>, side |-> "manager"]

\* no call of calculate_job_cost yet
NoCalc == [cpu |-> 0, ram |-> 0, gpu |-> 0, timeout |-> 0, result |-> 0,
           calls |-> 0]

\* a file system with the directory of server.py and nothing else: a path
\* is the sequence of its components from the root
NoDisk == [dirs |-> { << >>, << << "manager" >> >> }, files |-> {}]

\* python None where a text is expected
None == << NoText >>

\* what a run of the job's process does: it exits with a code, outlives the
\* time limit, makes the executor raise while it waits ("error"), or cannot
\* be started ("start"); stdout and stderr are what it wrote until then
NoRun == [kind |-> "exit", code |-> 0, stdout |-> << >>, stderr |-> << >>]

\* what execute gives its caller: a result, or an exception
NoResult == [raised |-> FALSE, success |-> FALSE, output |-> << >>, error |-> None]

\* no call of SandboxExecutor.execute yet
NoBox == [use_docker |-> FALSE, run |-> NoRun, result |-> NoResult, calls |-> 0]

\* no call of _collect_output_files yet
NoSweep == [listing |-> << >>, exclude |-> {}, files |-> << >>, calls |-> 0]

\* the worker client's threads that write to its socket, with the JSON
\* bodies each has still to send: run (request_job, job_result) and
\* heartbeat_loop (heartbeat)
NoSock ==
  [stream |-> << >>,
   thr |-> [t \in {"run", "heartbeat_loop"} |->
              [pc |-> "idle", data |-> << >>, pieces |-> 0,
               todo |-> IF t = "run"
                          THEN << << "{", "r", "}" >>, << "{", "j", "}" >> >>
                          ELSE << << "{", "h", "}" >> >>]]]

InitSide ==
  /\ monitor = NewMonitor
  /\ wire = NoWire
  /\ calc = NoCalc
  /\ sock = NoSock
  /\ sweep = NoSweep
  /\ box = NoBox
  /\ disk = NoDisk

Init ==
  /\ InitManager
  /\ InitSide
  /\ wpc = [c \in ConnIds |-> AnyPeer]

InitClient ==
  /\ InitManager
  /\ InitSide
  /\ wpc = [c \in ConnIds |-> NewClient]

\* the clock advances
Tick ==
  /\ now < MaxTime
  /\ now' = now + 1
  /\ UNCHANGED << sideVars, dbVars, dbLock, memVars, pc, sel, m2w, w2m, web, wpc >>

\* ------------------------------------------------------------ the store

\* UPDATE workers SET status = ? WHERE id = ?  (no row: nothing changes)
update_worker_status(tbl, worker_id, status) ==
  IF worker_id \in DOMAIN tbl
    THEN [tbl EXCEPT ![worker_id].status = status]
    ELSE tbl

\* log_activity: one row of activity_logs; details holds the values the
\* caller formats into its text
log_activity(event_type, actor_id, details) ==
  activity' = activity \cup {[event_type |-> event_type, actor_id |-> actor_id,
                              details |-> details]}

\* create_user: a new row with the starting balance and no transaction
CreateUser ==
  /\ dbLock = NoId
  /\ Cardinality(DOMAIN credits) < MaxUsers
  /\ credits' = credits @@ ((Cardinality(DOMAIN credits) + 1) :> STARTING_CREDITS)
  /\ log_activity("user_registered", Cardinality(DOMAIN credits) + 1, << NoId, "New" >>)
  /\ UNCHANGED << now, sideVars, transactions, dbWorkers, jobs, job_queue, jobSeq, dbLock,
                  memVars, pc, sel, m2w, w2m, web, wpc >>

\* requests that passed the balance check and have not inserted their job yet
PendingInserts == Cardinality({t \in DOMAIN web : web[t].pc = "insert"})

\* mutant: only an unknown user is refused
Refuses_UnknownOnly(u, cost) == u \notin DOMAIN credits

\* create_job's check: if not user or user['credits'] < credit_cost
Refuses(u, cost) == u \notin DOMAIN credits \/ credits[u] < cost

\* dashboard submit_job / create_job up to the balance check: the cost is
\* computed, the user row is read on a connection of its own, and the request
\* is refused with a reason when the balance is short
SubmitCheck(t, u, d, p) ==
  /\ web[t].pc = "idle"
  /\ jobSeq + PendingInserts < MaxJobs
  /\ LET cost == calculate_job_cost(d.cpu, d.ram, d.gpu, d.timeout) IN
       web' = [web EXCEPT ![t] =
                 IF Refuses(u, cost)
                   THEN [IdleWeb EXCEPT !.result = "Insufficient credits"]
                   ELSE [pc |-> "insert", user |-> u, cpu |-> d.cpu, ram |-> d.ram,
                         gpu |-> d.gpu, timeout |-> d.timeout, priority |-> p,
                         cost |-> cost, result |-> "none"]]
  /\ UNCHANGED << now, sideVars, dbVars, dbLock, memVars, pc, sel, m2w, w2m, wpc >>

\* mutant: the row is inserted with the column default for credit_reward
NewJobRow_DefaultReward(r) ==
  [submitter_id |-> r.user, worker_id |-> NoId, status |-> "pending",
   priority |-> r.priority, cpu_required |-> r.cpu, ram_required_gb |-> r.ram,
   gpu_required |-> r.gpu, timeout_seconds |-> r.timeout,
   credit_cost |-> r.cost, credit_reward |-> 10,
   result_output |-> NoText, error_log |-> NoText,
   started_at |-> NoTime, completed_at |-> NoTime]

\* the jobs row create_job inserts
NewJobRow(r) ==
  [submitter_id |-> r.user, worker_id |-> NoId, status |-> "pending",
   priority |-> r.priority, cpu_required |-> r.cpu, ram_required_gb |-> r.ram,
   gpu_required |-> r.gpu, timeout_seconds |-> r.timeout,
   credit_cost |-> r.cost, credit_reward |-> r.cost,
   result_output |-> NoText, error_log |-> NoText,
   started_at |-> NoTime, completed_at |-> NoTime]

\* the job_queue row create_job inserts
NewQueueRow(id, job_id, priority) ==
  [id |-> id, job_id |-> job_id, priority |-> priority,
   queued_at |-> CURRENT_TIMESTAMP]

\* create_job's write transaction: debit, job row, queue row, transaction row
SubmitInsert(t) ==
  /\ web[t].pc = "insert"
  /\ dbLock = NoId
  /\ Len(transactions) < MaxTx
  /\ LET r == web[t]
         job_id == jobSeq + 1
     IN /\ credits' = [credits EXCEPT ![r.user] = @ - r.cost]
        /\ jobs' = jobs @@ (job_id :> NewJobRow(r))
        /\ job_queue' = job_queue \cup {NewQueueRow(jobSeq + 1, job_id, r.priority)}
        /\ jobSeq' = jobSeq + 1
        /\ transactions' = Append(transactions,
               [user_id |-> r.user, amount |-> 0 - r.cost,
                transaction_type |-> "job_submitted", job_id |-> job_id])
        /\ log_activity("job_created", r.user, << job_id, "Job" >>)
  /\ web' = [web EXCEPT ![t] = [IdleWeb EXCEPT !.result = "ok"]]
  /\ UNCHANGED << now, sideVars, dbWorkers, dbLock, memVars, pc, sel, m2w, w2m, wpc >>

\* database.pause_worker (dashboard: the owner or an admin pauses a worker;
\* the first user is an admin)
PauseWorker(w) ==
  /\ dbLock = NoId
  /\ w \in DOMAIN dbWorkers
  /\ dbWorkers' = update_worker_status(dbWorkers, w, "paused")
  /\ UNCHANGED << now, sideVars, credits, transactions, jobs, job_queue, jobSeq,
                  activity, dbLock, memVars, pc, sel, m2w, w2m, web, wpc >>

\* database.resume_worker: the row is set online whatever its status was
ResumeWorker(w) ==
  /\ dbLock = NoId
  /\ w \in DOMAIN dbWorkers
  /\ dbWorkers' = update_worker_status(dbWorkers, w, "online")
  /\ UNCHANGED << now, sideVars, credits, transactions, jobs, job_queue, jobSeq,
                  activity, dbLock, memVars, pc, sel, m2w, w2m, web, wpc >>

\* database.clear_job_history (dashboard /admin/clear-history)
ClearJobHistory ==
  /\ dbLock = NoId
  /\ jobs /= << >>
  /\ jobs' = << >>
  /\ job_queue' = {}
  /\ activity' = {}
  /\ UNCHANGED << now, sideVars, credits, transactions, dbWorkers, jobSeq, dbLock,
                  memVars, pc, sel, m2w, w2m, web, wpc >>

\* ------------------------------------------------- the manager's sessions

\* ManagerServer._send_message: one frame onto the connection's stream (a
\* peer that is not a modelled client reads every frame at once)
Send(c, frame) ==
  m2w' = IF wpc[c].pc = "any" THEN m2w ELSE [m2w EXCEPT ![c] = Append(@, frame)]

\* ManagerServer._verify_owner: the token is looked up as a username (user
\* ids stand for usernames); an empty or unknown token gives no owner
verify_owner(token) == IF token \in DOMAIN credits THEN token ELSE NoId

\* handle_worker, first message is a register: register_worker inserts the
\* row, WorkerManager.register fills the in-memory table and marks the row
\* online, and the confirmation is sent
OnRegister(c, msg) ==
  /\ pc[c] = "await_register"
  /\ msg.type = "register"
  /\ dbLock = NoId
  /\ dbWorkers' = dbWorkers @@
       (c :> [owner_id |-> verify_owner(msg.owner_token), status |-> "online",
              cpu_cores |-> msg.specs.cpu_cores, ram_gb |-> msg.specs.ram_gb,
              gpu_name |-> msg.specs.gpu_name,
              total_jobs_completed |-> 0, total_credits_earned |-> 0])
  /\ workers' = workers @@
       (c :> [status |-> "online", current_job |-> NoId,
              last_heartbeat |-> datetime_now])
  /\ connections' = connections \cup {c}
  /\ log_activity("worker_registered", verify_owner(msg.owner_token),
                  << c, "Worker" >>)
  /\ Send(c, [type |-> "registered", worker_id |-> c])
  /\ pc' = [pc EXCEPT ![c] = "ready"]
  /\ UNCHANGED << now, sideVars, credits, transactions, jobs, job_queue, jobSeq, dbLock,
                  sel, web, wpc >>

\* what _receive_message returns for a closed connection, a header that is
\* no number or is zero, or a body that does not parse: None
NoMsg == [type |-> NoText]

\* mutant: the worker row is inserted before the first message is looked at
OnBadFirst_Registers(c, msg) ==
  /\ pc[c] = "await_register"
  /\ msg.type /= "register"
  /\ dbWorkers' = dbWorkers @@
       (c :> [owner_id |-> NoId, status |-> "offline", cpu_cores |-> 1,
              ram_gb |-> 1, gpu_name |-> NoText,
              total_jobs_completed |-> 0, total_credits_earned |-> 0])
  /\ pc' = [pc EXCEPT ![c] = "closed"]
  /\ UNCHANGED << now, sideVars, credits, transactions, jobs, job_queue, jobSeq,
                  activity, dbLock, memVars, sel, m2w, web, wpc >>

\* handle_worker, first message is None or anything but a register: the
\* socket is closed
OnBadFirst(c, msg) ==
  /\ pc[c] = "await_register"
  /\ msg.type /= "register"
  /\ pc' = [pc EXCEPT ![c] = "closed"]
  /\ UNCHANGED << now, sideVars, dbVars, dbLock, memVars, sel, m2w, web, wpc >>

\* WorkerManager.update_heartbeat
OnHeartbeat(c, msg) ==
  /\ pc[c] = "ready"
  /\ msg.type = "heartbeat"
  /\ workers' = IF c \in DOMAIN workers
                  THEN [workers EXCEPT ![c].last_heartbeat = datetime_now,
                                       ![c].status = "online"]
                  ELSE workers
  /\ UNCHANGED << now, sideVars, dbVars, dbLock, connections, pc, sel, m2w, web, wpc >>

\* mutant: the WHERE clause without its gpu condition
Fits_NoGpu(q, w) ==
  /\ q.job_id \in DOMAIN jobs
  /\ jobs[q.job_id].status = "pending"
  /\ jobs[q.job_id].cpu_required <= w.cpu_cores
  /\ jobs[q.job_id].ram_required_gb <= w.ram_gb

\* the WHERE clause of the dispatch query for queue row q and a worker row
Fits(q, w) ==
  /\ q.job_id \in DOMAIN jobs
  /\ jobs[q.job_id].status = "pending"
  /\ jobs[q.job_id].cpu_required <= w.cpu_cores
  /\ jobs[q.job_id].ram_required_gb <= w.ram_gb
  /\ (jobs[q.job_id].gpu_required = 0 \/ w.gpu_name /= NoText)

Candidates(w) == {q \in job_queue : Fits(q, w)}

\* mutant: ORDER BY q.priority ASC
Before_PriorityAsc(q, r) ==
  \/ q.priority < r.priority
  \/ (q.priority = r.priority /\ q.queued_at <= r.queued_at)

\* ORDER BY q.priority DESC, q.queued_at ASC: q sorts no later than r
Before(q, r) ==
  \/ q.priority > r.priority
  \/ (q.priority = r.priority /\ q.queued_at <= r.queued_at)

\* mutant: the first row of the whole queue is taken, if it fits
FirstRows_HeadOfQueue(w) ==
  {q \in Candidates(w) :
     \A r \in job_queue :
       (r.job_id \in DOMAIN jobs /\ jobs[r.job_id].status = "pending")
         => Before(q, r)}

\* LIMIT 1: the rows that may come first (rows equal in both sort keys come
\* in an order the query does not fix)
FirstRows(w) == {q \in Candidates(w) : \A r \in Candidates(w) : Before(q, r)}

\* mutant: every request_job is answered no_job
OnRequestJob_NoJob(c, msg) ==
  /\ pc[c] = "ready"
  /\ msg.type = "request_job"
  /\ Send(c, [type |-> "no_job"])
  /\ UNCHANGED << now, sideVars, dbVars, dbLock, memVars, pc, sel, web, wpc >>

\* handle_worker on request_job, up to the SELECT of
\* database.get_next_job_for_worker: no in-memory entry, no worker row or no
\* matching job answers no_job; otherwise the thread holds the selected row
OnRequestJob(c, msg) ==
  /\ pc[c] = "ready"
  /\ msg.type = "request_job"
  /\ IF c \in DOMAIN workers /\ c \in DOMAIN dbWorkers
          /\ FirstRows(dbWorkers[c]) /= {}
       THEN /\ \E q \in FirstRows(dbWorkers[c]) :
                 sel' = [sel EXCEPT ![c] = [NoSel EXCEPT !.job = q.job_id]]
            /\ pc' = [pc EXCEPT ![c] = "update"]
            /\ UNCHANGED m2w
       ELSE /\ Send(c, [type |-> "no_job"])
            /\ UNCHANGED << pc, sel >>
  /\ UNCHANGED << now, sideVars, dbVars, dbLock, memVars, web, wpc >>

\* UPDATE jobs SET status = 'running' ...: the first write opens the write
\* transaction (it waits while another connection holds the lock)
DispatchUpdate(c) ==
  /\ pc[c] = "update"
  /\ dbLock = NoId
  /\ dbLock' = c
  /\ pc' = [pc EXCEPT ![c] = "delete"]
  /\ UNCHANGED << now, sideVars, dbVars, memVars, sel, m2w, w2m, web, wpc >>

\* DELETE FROM job_queue WHERE job_id = ?, inside the open transaction
DispatchDelete(c) ==
  /\ pc[c] = "delete"
  /\ dbLock = c
  /\ pc' = [pc EXCEPT ![c] = "commit"]
  /\ UNCHANGED << now, sideVars, dbVars, dbLock, memVars, sel, m2w, w2m, web, wpc >>

\* mutant: the UPDATE sets the worker but leaves the status
MarkRunning_StatusKept(tbl, j, c) ==
  IF j \in DOMAIN tbl
    THEN [tbl EXCEPT ![j].worker_id = c, ![j].started_at = datetime_now]
    ELSE tbl

\* the jobs table after the dispatch UPDATE of job j for worker c
MarkRunning(tbl, j, c) ==
  IF j \in DOMAIN tbl
    THEN [tbl EXCEPT ![j].status = "running", ![j].worker_id = c,
                     ![j].started_at = datetime_now]
    ELSE tbl

\* mutant: the UPDATE is committed without the DELETE
DispatchCommit_UpdateOnly(c) ==
  /\ pc[c] = "commit"
  /\ dbLock = c
  /\ jobs' = MarkRunning(jobs, sel[c].job, c)
  /\ log_activity("job_started", c, << sel[c].job, "started" >>)
  /\ dbLock' = NoId
  /\ pc' = [pc EXCEPT ![c] = "assigned"]
  /\ UNCHANGED << now, sideVars, credits, transactions, dbWorkers, job_queue, jobSeq,
                  memVars, sel, m2w, w2m, web, wpc >>

\* conn.commit(): the UPDATE and the DELETE become visible together
DispatchCommit(c) ==
  /\ pc[c] = "commit"
  /\ dbLock = c
  /\ jobs' = MarkRunning(jobs, sel[c].job, c)
  /\ job_queue' = {q \in job_queue : q.job_id /= sel[c].job}
  /\ log_activity("job_started", c, << sel[c].job, "started" >>)
  /\ dbLock' = NoId
  /\ pc' = [pc EXCEPT ![c] = "assigned"]
  /\ UNCHANGED << now, sideVars, credits, transactions, dbWorkers, jobSeq, memVars, sel,
                  m2w, w2m, web, wpc >>

\* WorkerManager.set_worker_busy
set_worker_busy(tbl, worker_id, job_id) ==
  IF worker_id \in DOMAIN tbl
    THEN [tbl EXCEPT ![worker_id].status = "busy",
                     ![worker_id].current_job = job_id]
    ELSE tbl

\* JobScheduler.get_next_job_for_worker after the store call: the worker is
\* marked busy and the job is sent
DispatchSend(c) ==
  /\ pc[c] = "assigned"
  /\ workers' = set_worker_busy(workers, c, sel[c].job)
  /\ Send(c, [type |-> "job", job_id |-> sel[c].job])
  /\ sel' = [sel EXCEPT ![c] = NoSel]
  /\ pc' = [pc EXCEPT ![c] = "ready"]
  /\ UNCHANGED << now, sideVars, dbVars, dbLock, connections, w2m, web, wpc >>

\* WorkerManager.set_worker_idle (its jobs_completed counter is never read
\* and is left out)
set_worker_idle(tbl, worker_id) ==
  IF worker_id \in DOMAIN tbl
    THEN [tbl EXCEPT ![worker_id].status = "online",
                     ![worker_id].current_job = NoId]
    ELSE tbl

\* handle_worker on job_result, up to the SELECT of database.complete_job:
\* the worker is marked idle, the job row is read; an unknown job id is
\* acknowledged at once
OnJobResult(c, msg) ==
  /\ pc[c] = "ready"
  /\ msg.type = "job_result"
  /\ workers' = set_worker_idle(workers, c)
  /\ IF msg.job_id \in DOMAIN jobs
       THEN /\ sel' = [sel EXCEPT ![c] =
                         [job |-> msg.job_id,
                          worker_id |-> jobs[msg.job_id].worker_id,
                          credit_reward |-> jobs[msg.job_id].credit_reward,
                          success |-> msg.success, output |-> msg.output,
                          attempt |-> 0]]
            /\ pc' = [pc EXCEPT ![c] = "complete"]
            /\ UNCHANGED m2w
       ELSE /\ Send(c, [type |-> "job_received", job_id |-> msg.job_id])
            /\ UNCHANGED << pc, sel >>
  /\ UNCHANGED << now, sideVars, dbVars, dbLock, connections, web, wpc >>

\* mutant: the reward does not depend on the result
Rewarded_AnyResult(r) ==
  /\ r.worker_id /= NoId
  /\ r.worker_id \in DOMAIN dbWorkers
  /\ dbWorkers[r.worker_id].owner_id /= NoId

\* whether complete_job pays: success, the row read had a worker, and that
\* worker's row (read now, on another connection) has an owner
Rewarded(r) ==
  /\ r.success
  /\ r.worker_id /= NoId
  /\ r.worker_id \in DOMAIN dbWorkers
  /\ dbWorkers[r.worker_id].owner_id /= NoId

\* the jobs table after complete_job's UPDATE
MarkDone(tbl, r) ==
  IF r.job \in DOMAIN tbl
    THEN [tbl EXCEPT ![r.job].status = IF r.success THEN "completed" ELSE "failed",
                     ![r.job].result_output = r.output,
                     ![r.job].error_log = IF r.success THEN NoText ELSE "error",
                     ![r.job].completed_at = datetime_now]
    ELSE tbl

\* complete_job's write transaction, from its UPDATE of the job to commit()
CompleteTxn(r) ==
  /\ jobs' = MarkDone(jobs, r)
  /\ IF Rewarded(r)
       THEN LET owner == dbWorkers[r.worker_id].owner_id IN
            /\ Len(transactions) < MaxTx
            /\ credits' = [credits EXCEPT ![owner] = @ + r.credit_reward]
            /\ transactions' = Append(transactions,
                   [user_id |-> owner, amount |-> r.credit_reward,
                    transaction_type |-> "job_completed", job_id |-> r.job])
            /\ dbWorkers' = [dbWorkers EXCEPT
                   ![r.worker_id].total_jobs_completed = @ + 1,
                   ![r.worker_id].total_credits_earned = @ + r.credit_reward]
       ELSE UNCHANGED << credits, transactions, dbWorkers >>

\* complete_job with the write lock free throughout: its transaction, its
\* activity row, and the acknowledgement that follows it
CompleteWrite(c) ==
  /\ pc[c] = "complete"
  /\ dbLock = NoId
  /\ LET r == sel[c] IN
       /\ CompleteTxn(r)
       /\ log_activity("job_completed", r.worker_id,
                       << r.job, IF r.success THEN "completed" ELSE "failed" >>)
       /\ Send(c, [type |-> "job_received", job_id |-> r.job])
  /\ sel' = [sel EXCEPT ![c] = NoSel]
  /\ pc' = [pc EXCEPT ![c] = "ready"]
  /\ UNCHANGED << now, sideVars, job_queue, jobSeq, dbLock, memVars, w2m, web, wpc >>

\* mutant: the durable row is left as it was
disconnect_MemoryOnly(c) ==
  IF c \in DOMAIN workers
    THEN /\ workers' = [w \in DOMAIN workers \ {c} |-> workers[w]]
         /\ connections' = connections \ {c}
         /\ UNCHANGED dbWorkers
    ELSE UNCHANGED << workers, connections, dbWorkers >>

\* mutant: every worker is dropped with the one that is disconnected
disconnect_DropsAll(c) ==
  IF c \in DOMAIN workers
    THEN /\ workers' = << >>
         /\ connections' = {}
         /\ dbWorkers' = update_worker_status(dbWorkers, c, "offline")
    ELSE UNCHANGED << workers, connections, dbWorkers >>

\* mutant: the socket stays in the connections map
disconnect_KeepsSocket(c) ==
  IF c \in DOMAIN workers
    THEN /\ workers' = [w \in DOMAIN workers \ {c} |-> workers[w]]
         /\ dbWorkers' = update_worker_status(dbWorkers, c, "offline")
         /\ UNCHANGED connections
    ELSE UNCHANGED << workers, connections, dbWorkers >>

\* WorkerManager.disconnect: the entry and the socket are dropped and the
\* row is marked offline; nothing happens for an id not in the table
disconnect(c) ==
  IF c \in DOMAIN workers
    THEN /\ workers' = [w \in DOMAIN workers \ {c} |-> workers[w]]
         /\ connections' = connections \ {c}
         /\ dbWorkers' = update_worker_status(dbWorkers, c, "offline")
    ELSE UNCHANGED << workers, connections, dbWorkers >>

\* mutant: the jobs running on the worker go back to pending
OnDisconnect_Requeues(c, msg) ==
  /\ pc[c] = "ready"
  /\ (msg.type = "disconnect" \/ msg = NoMsg)
  /\ dbLock = NoId
  /\ disconnect(c)
  /\ jobs' = [j \in DOMAIN jobs |->
               IF jobs[j].status = "running" /\ jobs[j].worker_id = c
                 THEN [jobs[j] EXCEPT !.status = "pending", !.worker_id = NoId]
                 ELSE jobs[j]]
  /\ pc' = [pc EXCEPT ![c] = "closed"]
  /\ UNCHANGED << now, sideVars, credits, transactions, job_queue, jobSeq,
                  activity, dbLock, sel, m2w, web, wpc >>

\* handle_worker on disconnect, or when no message could be read: the loop
\* ends and the finally clause runs
OnDisconnect(c, msg) ==
  /\ pc[c] = "ready"
  /\ (msg.type = "disconnect" \/ msg = NoMsg)
  /\ dbLock = NoId
  /\ disconnect(c)
  /\ pc' = [pc EXCEPT ![c] = "closed"]
  /\ UNCHANGED << now, sideVars, credits, transactions, jobs, job_queue, jobSeq,
                  activity, dbLock, sel, m2w, web, wpc >>

\* the message types the main loop of handle_worker has a branch for
KnownTypes == {"heartbeat", "request_job", "job_result", "disconnect"}

\* handle_worker on any other type: no branch of the if/elif chain matches
\* and the loop goes on to its next receive
OnOther(c, msg) ==
  /\ pc[c] = "ready"
  /\ msg /= NoMsg
  /\ msg.type \notin KnownTypes
  /\ UNCHANGED << now, sideVars, dbVars, dbLock, memVars, pc, sel, m2w, web, wpc >>

\* one message read by a session thread and handled
Handle(c, msg) ==
  \/ OnRegister(c, msg)
  \/ OnBadFirst(c, msg)
  \/ OnHeartbeat(c, msg)
  \/ OnRequestJob(c, msg)
  \/ OnJobResult(c, msg)
  \/ OnDisconnect(c, msg)
  \/ OnOther(c, msg)

\* the steps a session thread takes between two reads
SessionStep(c) ==
  \/ DispatchUpdate(c)
  \/ DispatchDelete(c)
  \/ DispatchCommit(c)
  \/ DispatchSend(c)
  \/ CompleteWrite(c)

\* ------------------------------------------------ any worker at all (Spec)

\* the frames a peer may write on its connection
AnyMsgs ==
  [type : {"register"}, owner_token : UserIds, specs : WorkerSpecs]
  \cup [type : {"heartbeat", "request_job", "disconnect"}]
  \cup [type : {"job_result"}, job_id : JobIds, success : BOOLEAN, output : Outputs]

\* connections accepted so far
Accepted == {c \in ConnIds : pc[c] /= "await_register"}

\* connections accepted plus jobs submitted so far
Load == Cardinality(Accepted) + jobSeq + PendingInserts

\* a peer's frame reaches the session thread
Receive(c) ==
  /\ wpc[c].pc = "any"
  /\ pc[c] = "await_register" => Load < MaxLoad
  /\ \E msg \in AnyMsgs : Handle(c, msg)
  /\ UNCHANGED w2m

\* the dashboard's operations on the store
Dashboard ==
  \/ CreateUser
  \/ \E t \in DOMAIN web, u \in UserIds, d \in JobDemands, p \in Priorities :
       Load < MaxLoad /\ SubmitCheck(t, u, d, p)
  \/ \E t \in DOMAIN web : SubmitInsert(t)
  \/ \E w \in ConnIds : PauseWorker(w)
  \/ \E w \in ConnIds : ResumeWorker(w)
  \/ ClearJobHistory

\* Spec: concurrent sessions with arbitrary peers, within one clock tick
Next ==
  \/ Dashboard
  \/ \E c \in ConnIds : Receive(c)
  \/ \E c \in ConnIds : SessionStep(c)

Spec == Init /\ [][Next]_vars

\* SpecClock: one session with an arbitrary peer, while the clock advances
NextClock ==
  \/ Tick
  \/ Dashboard
  \/ \E c \in ConnIds : Accepted \subseteq {c} /\ Receive(c)
  \/ \E c \in ConnIds : SessionStep(c)

SpecClock == Init /\ [][NextClock]_vars

\* ------------------------------------- concurrent submissions (SpecSubmit)

InitSubmit ==
  /\ InitCore
  /\ InitSide
  /\ web = [t \in 1..SubmitThreads |-> IdleWeb]
  /\ wpc = [c \in ConnIds |-> AnyPeer]

\* SpecSubmit: dashboard requests submitting jobs side by side
NextSubmit ==
  \/ CreateUser
  \/ \E t \in DOMAIN web, u \in UserIds, d \in JobDemands \cup LongDemands,
        p \in Priorities : SubmitCheck(t, u, d, p)
  \/ \E t \in DOMAIN web : SubmitInsert(t)

SpecSubmit == InitSubmit /\ [][NextSubmit]_vars

\* ------------------------------------------- the worker client (SpecClient)

\* WorkerClient._send_message: one frame onto the stream to the manager
ClientSend(c, frame) == w2m' = [w2m EXCEPT ![c] = Append(@, frame)]

\* WorkerClient.connect, first half: the socket is opened and register is
\* sent (one client is run)
ClientConnect(c, token, specs) ==
  /\ wpc[c].pc = "start"
  /\ \A d \in ConnIds \ {c} : wpc[d].pc = "start"
  /\ ClientSend(c, [type |-> "register", owner_token |-> token, specs |-> specs])
  /\ wpc' = [wpc EXCEPT ![c].pc = "wait_registered"]
  /\ UNCHANGED << now, sideVars, dbVars, dbLock, memVars, pc, sel, m2w, web >>

\* WorkerClient.connect, second half: the confirmation is read
ClientRegistered(c) ==
  /\ wpc[c].pc = "wait_registered"
  /\ m2w[c] /= << >>
  /\ m2w' = [m2w EXCEPT ![c] = Tail(@)]
  /\ wpc' = [wpc EXCEPT ![c].pc =
               IF Head(m2w[c]).type = "registered" THEN "loop" ELSE "stopped"]
  /\ UNCHANGED << now, sideVars, dbVars, dbLock, memVars, pc, sel, w2m, web >>

\* WorkerClient.request_job, the send
ClientRequest(c) ==
  /\ wpc[c].pc = "loop"
  /\ ClientSend(c, [type |-> "request_job"])
  /\ wpc' = [wpc EXCEPT ![c].pc = "wait_reply"]
  /\ UNCHANGED << now, sideVars, dbVars, dbLock, memVars, pc, sel, m2w, web >>

\* WorkerClient.request_job, the receive, and run's branch on what was read:
\* a job is executed; no_job and any other frame lead back to the loop
ClientReply(c) ==
  /\ wpc[c].pc = "wait_reply"
  /\ m2w[c] /= << >>
  /\ m2w' = [m2w EXCEPT ![c] = Tail(@)]
  /\ wpc' = [wpc EXCEPT ![c] =
               IF Head(m2w[c]).type = "job"
                 THEN [pc |-> "exec", job |-> Head(m2w[c]).job_id]
                 ELSE [pc |-> "loop", job |-> NoId]]
  /\ UNCHANGED << now, sideVars, dbVars, dbLock, memVars, pc, sel, w2m, web >>

\* WorkerClient.execute_job and the send of its result
ClientExecute(c, success, output) ==
  /\ wpc[c].pc = "exec"
  /\ ClientSend(c, [type |-> "job_result", job_id |-> wpc[c].job,
                    success |-> success, output |-> output])
  /\ wpc' = [wpc EXCEPT ![c] = [pc |-> "loop", job |-> NoId]]
  /\ UNCHANGED << now, sideVars, dbVars, dbLock, memVars, pc, sel, m2w, web >>

\* WorkerClient._signal_handler: disconnect is sent and the client stops
ClientShutdown(c) ==
  /\ wpc[c].pc \in {"loop", "wait_reply", "exec"}
  /\ ClientSend(c, [type |-> "disconnect"])
  /\ wpc' = [wpc EXCEPT ![c] = [pc |-> "stopped", job |-> NoId]]
  /\ UNCHANGED << now, sideVars, dbVars, dbLock, memVars, pc, sel, m2w, web >>

\* the session thread reads the next frame of its connection
ReceiveFrame(c) ==
  /\ w2m[c] /= << >>
  /\ Handle(c, Head(w2m[c]))
  /\ w2m' = [w2m EXCEPT ![c] = Tail(@)]

\* the session thread reads the client's next frame
ReceiveWire(c) ==
  /\ wpc[c].pc /= "any"
  /\ ReceiveFrame(c)

\* SpecClient: the manager with one worker client as the code runs it
NextClient ==
  \/ CreateUser
  \/ \E t \in DOMAIN web, u \in UserIds, d \in JobDemands, p \in Priorities :
       SubmitCheck(t, u, d, p)
  \/ \E t \in DOMAIN web : SubmitInsert(t)
  \/ \E c \in ConnIds, token \in UserIds, specs \in WorkerSpecs :
       ClientConnect(c, token, specs)
  \/ \E c \in ConnIds : ClientRegistered(c)
  \/ \E c \in ConnIds : ClientRequest(c)
  \/ \E c \in ConnIds : ClientReply(c)
  \/ \E c \in ConnIds, success \in BOOLEAN, output \in Outputs :
       ClientExecute(c, success, output)
  \/ \E c \in ConnIds : ClientShutdown(c)
  \/ \E c \in ConnIds : ReceiveWire(c)
  \/ \E c \in ConnIds : SessionStep(c)

SpecClient == InitClient /\ [][NextClient]_vars

\* ------------------------------------------ frames of any type (SpecProto)

\* frames with a type the protocol does not name
OtherMsgs == [type : {"status", "job"}]

\* a peer writes one frame onto its connection (NoMsg: it closes it, or
\* writes bytes that are no frame)
PeerWrite(c, msg) ==
  /\ pc[c] /= "closed"
  /\ w2m[c] = << >>
  /\ w2m' = [w2m EXCEPT ![c] = << msg >>]
  /\ UNCHANGED << now, sideVars, dbVars, dbLock, memVars, pc, sel, m2w, web, wpc >>

\* SpecProto: sessions whose peers write frames of any type
NextProto ==
  \/ \E c \in ConnIds, msg \in AnyMsgs \cup OtherMsgs \cup {NoMsg} :
       PeerWrite(c, msg)
  \/ \E c \in ConnIds : ReceiveFrame(c)

SpecProto == Init /\ [][NextProto]_vars

\* ------------------------------------------ the health monitor (SpecHealth)

\* check_timeouts' test: worker['last_heartbeat'] < timeout_threshold
TimedOut(w) ==
  workers[w].last_heartbeat < datetime_now - heartbeat_timeout * TicksPerSec

\* check_timeouts, first loop: under the lock, the ids to time out are listed
CheckTimeouts ==
  /\ monitor.pc = "check"
  /\ monitor' = [pc |-> "disconnect",
                 timed_out |-> {w \in DOMAIN workers : TimedOut(w)}]
  /\ UNCHANGED << now, wire, calc, disk, box, sweep, sock, dbVars, dbLock, memVars, pc, sel, m2w, w2m,
                  web, wpc >>

\* check_timeouts, second loop: one listed worker is disconnected
MonitorDisconnect ==
  /\ monitor.pc = "disconnect"
  /\ dbLock = NoId
  /\ \E w \in monitor.timed_out :
       /\ disconnect(w)
       /\ monitor' = [monitor EXCEPT !.timed_out = @ \ {w}]
  /\ UNCHANGED << now, wire, calc, disk, box, sweep, sock, credits, transactions, jobs, job_queue, jobSeq,
                  activity, dbLock, pc, sel, m2w, w2m, web, wpc >>

\* the clock value after which the monitor sleeps no more
LastSleep == MaxSleeps * monitor_sleep * TicksPerSec

\* health_monitor: check_timeouts has returned and the thread sleeps; the
\* clock is read at the monitor's pace
MonitorSleep ==
  /\ monitor.pc = "disconnect"
  /\ monitor.timed_out = {}
  /\ now + monitor_sleep * TicksPerSec <= LastSleep
  /\ now' = now + monitor_sleep * TicksPerSec
  /\ monitor' = [monitor EXCEPT !.pc = "check"]
  /\ UNCHANGED << wire, calc, disk, box, sweep, sock, dbVars, dbLock, memVars, pc, sel, m2w, w2m, web,
                  wpc >>

\* handle_worker when its socket was closed under it: the receive fails, the
\* loop ends and the finally clause runs
SessionClosed(c) ==
  /\ pc[c] = "ready"
  /\ c \notin connections
  /\ dbLock = NoId
  /\ disconnect(c)
  /\ pc' = [pc EXCEPT ![c] = "closed"]
  /\ UNCHANGED << now, sideVars, credits, transactions, jobs, job_queue, jobSeq,
                  activity, dbLock, sel, m2w, w2m, web, wpc >>

\* the receive of a session thread fails (the peer closed the connection,
\* or sent nothing for the socket's timeout): _receive_message returns None
ReadFails(c) ==
  /\ wpc[c].pc = "any"
  /\ pc[c] = "await_register" => Load < MaxLoad
  /\ pc[c] = "ready" => c \in connections
  /\ Handle(c, NoMsg)
  /\ UNCHANGED w2m

\* peers write nothing after this clock value: the monitor has the time to
\* see a heartbeat age past the timeout before its last sleep
QuietTime == (MaxSleeps - 3) * monitor_sleep * TicksPerSec

\* SpecHealth: sessions that go quiet, and the health monitor
NextHealth ==
  \/ CheckTimeouts
  \/ MonitorDisconnect
  \/ MonitorSleep
  \/ \E c \in ConnIds : SessionClosed(c)
  \/ \E c \in ConnIds : ReadFails(c)
  \/ \E c \in ConnIds :
       /\ now <= QuietTime
       /\ pc[c] = "ready" => c \in connections
       /\ Receive(c)

\* the monitor thread keeps running
SpecHealth ==
  /\ Init
  /\ [][NextHealth]_vars
  /\ WF_vars(CheckTimeouts)
  /\ WF_vars(MonitorDisconnect)
  /\ WF_vars(MonitorSleep)

\* the frames of a peer that takes jobs and reports nothing
TakerMsgs == {msg \in AnyMsgs : msg.type \in {"register", "request_job", "disconnect"}}

\* such a peer's frame reaches the session thread
Takes(c) ==
  /\ wpc[c].pc = "any"
  /\ pc[c] = "await_register" => Load < MaxLoad
  /\ pc[c] = "ready" => c \in connections
  /\ \E msg \in TakerMsgs : Handle(c, msg)
  /\ UNCHANGED w2m

\* SpecLost: one session whose worker takes jobs and goes away, and the
\* health monitor
NextLost ==
  \/ CreateUser
  \/ \E t \in DOMAIN web, u \in UserIds, d \in JobDemands, p \in Priorities :
       Load < MaxLoad /\ SubmitCheck(t, u, d, p)
  \/ \E t \in DOMAIN web : SubmitInsert(t)
  \/ \E c \in ConnIds : Accepted \subseteq {c} /\ Takes(c)
  \/ \E c \in ConnIds : DispatchUpdate(c)
  \/ \E c \in ConnIds : DispatchDelete(c)
  \/ \E c \in ConnIds : DispatchCommit(c)
  \/ \E c \in ConnIds : DispatchSend(c)
  \/ \E c \in ConnIds : SessionClosed(c)
  \/ CheckTimeouts
  \/ MonitorDisconnect
  \/ MonitorSleep

SpecLost == Init /\ [][NextLost]_vars

\* ------------------------------------------------- framing (SpecFrame)

\* the bytes of a stream: the ASCII digits and the bytes of a JSON body
DigitChars == << "0", "1", "2", "3", "4", "5", "6", "7", "8", "9" >>
IsDigit(b) == \E i \in DOMAIN DigitChars : DigitChars[i] = b
DigitValue(b) == (CHOOSE i \in DOMAIN DigitChars : DigitChars[i] = b) - 1

\* json.dumps(data).encode() of the messages written: two JSON documents
Bodies == { << "{", "}" >>, << "{", "a", "}" >> }

\* str(n).zfill(width): the decimal digits of n, zero-padded on the left
RECURSIVE zfill(_, _)
zfill(n, width) ==
  IF width = 0 THEN << >>
  ELSE Append(zfill(n \div 10, width - 1), DigitChars[(n % 10) + 1])

\* _send_message: header + msg
encode(msg) == zfill(Len(msg), header_len) \o msg

\* int(text) for a text of digits
RECURSIVE int(_)
int(text) ==
  IF text = << >> THEN 0
  ELSE 10 * int(SubSeq(text, 1, Len(text) - 1)) + DigitValue(text[Len(text)])

\* whether int(text) raises ValueError
int_raises(text) == text = << >> \/ \E i \in DOMAIN text : ~IsDigit(text[i])

\* whether json.loads(data) raises
loads_raises(data) == data \notin Bodies

Min(a, b) == IF a <= b THEN a ELSE b

\* the sender writes its next message
SendFrame ==
  /\ wire.out /= << >>
  /\ wire' = [wire EXCEPT !.out = Tail(@),
                          !.stream = @ \o encode(Head(wire.out)),
                          !.sent = Append(@, Head(wire.out))]
  /\ UNCHANGED << now, monitor, calc, disk, box, sweep, sock, dbVars, dbLock, memVars, pc, sel, m2w, w2m,
                  web, wpc >>

\* what the worker client's _receive_message returns for the size 0:
\* {'type': 'no_job'}
no_job == << "no_job" >>

\* _receive_message, the header: recv(10) returns the n bytes the transport
\* has delivered, at most 10; a text that is no number makes it return None
\* and the reader's loop ends; for the number 0 the manager's returns None
\* as well, and the worker client's returns a no_job message
RecvHeader(n) ==
  /\ wire.pc = "header"
  /\ n \in 1..Min(header_len, Len(wire.stream))
  /\ LET header == SubSeq(wire.stream, 1, n)
         rest == SubSeq(wire.stream, n + 1, Len(wire.stream))
     IN wire' = IF int_raises(header)
                  THEN [wire EXCEPT !.stream = rest, !.pc = "closed"]
                ELSE IF int(header) = 0
                  THEN IF wire.side = "worker"
                         THEN [wire EXCEPT !.stream = rest,
                                           !.got = Append(@, no_job)]
                         ELSE [wire EXCEPT !.stream = rest, !.pc = "closed"]
                ELSE [wire EXCEPT !.stream = rest, !.pc = "body",
                                  !.size = int(header), !.data = << >>]
  /\ UNCHANGED << now, monitor, calc, disk, box, sweep, sock, dbVars, dbLock, memVars, pc, sel, m2w, w2m,
                  web, wpc >>

\* the most one recv of the body loop asks for
ChunkSize(side) == IF side = "worker" THEN client_chunk_size ELSE chunk_size

\* _receive_message, the body loop: one recv of at most the bytes still
\* missing; the full body is parsed, and a body that does not parse makes it
\* return None
RecvBody(n) ==
  /\ wire.pc = "body"
  /\ n \in 1..Min(Min(ChunkSize(wire.side), wire.size - Len(wire.data)),
                  Len(wire.stream))
  /\ LET data == wire.data \o SubSeq(wire.stream, 1, n)
         rest == SubSeq(wire.stream, n + 1, Len(wire.stream))
     IN wire' = IF Len(data) < wire.size
                  THEN [wire EXCEPT !.stream = rest, !.data = data]
                  ELSE IF loads_raises(data)
                    THEN [wire EXCEPT !.stream = rest, !.data = << >>,
                                      !.size = 0, !.pc = "closed"]
                    ELSE [wire EXCEPT !.stream = rest, !.data = << >>,
                                      !.size = 0, !.pc = "header",
                                      !.got = Append(@, data)]
  /\ UNCHANGED << now, monitor, calc, disk, box, sweep, sock, dbVars, dbLock, memVars, pc, sel, m2w, w2m,
                  web, wpc >>

\* the message sequences a sender writes
RECURSIVE SeqsUpTo(_, _)
SeqsUpTo(S, n) ==
  IF n = 0 THEN { << >> }
  ELSE SeqsUpTo(S, n - 1)
       \cup { Append(q, x) : q \in {r \in SeqsUpTo(S, n - 1) : Len(r) = n - 1},
                             x \in S }

InitFrame ==
  /\ InitManager
  /\ monitor = NewMonitor
  /\ calc = NoCalc
  /\ sock = NoSock
  /\ sweep = NoSweep
  /\ box = NoBox
  /\ disk = NoDisk
  /\ wpc = [c \in ConnIds |-> AnyPeer]
  /\ \E o \in SeqsUpTo(Bodies, MaxFrames) : wire = [NoWire EXCEPT !.out = o]

\* SpecFrame: one direction of one connection, byte by byte
NextFrame ==
  \/ SendFrame
  \/ \E n \in 1..header_len : RecvHeader(n)
  \/ \E n \in 1..(Len(wire.stream) + 1) : RecvBody(n)

SpecFrame == InitFrame /\ [][NextFrame]_vars

\* ---------------------------------------- zero-length frames (SpecZero)

\* what a peer may write as the body of a frame: a JSON document or nothing
AnyBodies == Bodies \cup { << >> }

InitZero ==
  /\ InitManager
  /\ monitor = NewMonitor
  /\ calc = NoCalc
  /\ sock = NoSock
  /\ sweep = NoSweep
  /\ box = NoBox
  /\ disk = NoDisk
  /\ wpc = [c \in ConnIds |-> AnyPeer]
  /\ \E o \in SeqsUpTo(AnyBodies, MaxFrames) : \E side \in {"manager", "worker"} :
       wire = [NoWire EXCEPT !.out = o, !.side = side]

\* SpecZero: frames with and without a body, read by the manager or by the
\* worker client
SpecZero == InitZero /\ [][NextFrame]_vars

\* ------------------------------------------- the cost function (SpecCost)

\* integer arguments a caller may pass
CostCpus == -1..3
CostRams == 0..2
CostGpus == 0..1
CostTimeouts == {-1, 0, 59, 60, 119, 300}

\* one call of calculate_job_cost, whatever was called before
CalcCall(cpu, ram, gpu, timeout) ==
  /\ calc' = [cpu |-> cpu, ram |-> ram, gpu |-> gpu, timeout |-> timeout,
              result |-> calculate_job_cost(cpu, ram, gpu, timeout),
              calls |-> Min(calc.calls + 1, MaxCalls)]
  /\ UNCHANGED << now, monitor, wire, disk, box, sweep, sock, dbVars, dbLock, memVars, pc, sel, m2w, w2m,
                  web, wpc >>

\* SpecCost: calls of calculate_job_cost while the store changes
NextCost ==
  \/ CreateUser
  \/ \E cpu \in CostCpus, ram \in CostRams, gpu \in CostGpus,
        timeout \in CostTimeouts : CalcCall(cpu, ram, gpu, timeout)

SpecCost == Init /\ [][NextCost]_vars

\* --------------------------------- complete_job on a busy store (SpecRetry)

\* a peer that reads the manager's frames in its own time
SlowPeer == [pc |-> "peer", job |-> NoId]

InitRetry ==
  /\ InitManager
  /\ InitSide
  /\ wpc = [c \in ConnIds |-> SlowPeer]

\* another connection holds the write lock and keeps it past busy_timeout:
\* the statement of connection c raises OperationalError 'database is locked'
Locked(c) == dbLock /= NoId /\ dbLock /= c

\* the acknowledgement handle_worker sends after its try block, whether
\* complete_job returned or raised
SendAck(c) ==
  /\ Send(c, [type |-> "job_received", job_id |-> sel[c].job])
  /\ sel' = [sel EXCEPT ![c] = NoSel]
  /\ pc' = [pc EXCEPT ![c] = "ready"]

\* complete_job's except clause: before the last attempt it sleeps and the
\* loop goes round; on the last attempt the error is raised to handle_worker,
\* which prints it and goes on to send the acknowledgement
OnLocked(c) ==
  IF sel[c].attempt < max_retries - 1
    THEN /\ sel' = [sel EXCEPT ![c].attempt = @ + 1]
         /\ pc' = [pc EXCEPT ![c] = "select"]
         /\ UNCHANGED m2w
    ELSE SendAck(c)

\* complete_job, the SELECT of a further attempt: the job row is read again;
\* with no row complete_job returns False and the acknowledgement is sent
CompleteSelect(c) ==
  /\ pc[c] = "select"
  /\ LET r == sel[c] IN
       IF r.job \in DOMAIN jobs
         THEN /\ sel' = [sel EXCEPT ![c] =
                           [r EXCEPT !.worker_id = jobs[r.job].worker_id,
                                     !.credit_reward = jobs[r.job].credit_reward]]
              /\ pc' = [pc EXCEPT ![c] = "complete"]
              /\ UNCHANGED m2w
         ELSE SendAck(c)
  /\ UNCHANGED << now, sideVars, dbVars, dbLock, memVars, w2m, web, wpc >>

\* complete_job, an attempt whose UPDATE does not get the write lock: the
\* connection is closed with nothing written
CompleteLocked(c) ==
  /\ pc[c] = "complete"
  /\ Locked(c)
  /\ OnLocked(c)
  /\ UNCHANGED << now, sideVars, dbVars, dbLock, memVars, w2m, web, wpc >>

\* complete_job, an attempt that gets the write lock: the transaction, up
\* to conn.commit()
CompleteCommit(c) ==
  /\ pc[c] = "complete"
  /\ dbLock = NoId
  /\ CompleteTxn(sel[c])
  /\ pc' = [pc EXCEPT ![c] = "log"]
  /\ UNCHANGED << now, sideVars, job_queue, jobSeq, activity, dbLock, memVars, sel,
                  m2w, w2m, web, wpc >>

\* complete_job after its commit: log_activity writes its row on a connection
\* of its own, complete_job returns True and the acknowledgement is sent
LogWrite(c) ==
  /\ pc[c] = "log"
  /\ dbLock = NoId
  /\ log_activity("job_completed", sel[c].worker_id,
                  << sel[c].job, IF sel[c].success THEN "completed" ELSE "failed" >>)
  /\ SendAck(c)
  /\ UNCHANGED << now, sideVars, credits, transactions, dbWorkers, jobs, job_queue,
                  jobSeq, dbLock, memVars, w2m, web, wpc >>

\* complete_job after its commit, log_activity's INSERT does not get the
\* write lock: its OperationalError is raised inside complete_job's try
LogLocked(c) ==
  /\ pc[c] = "log"
  /\ Locked(c)
  /\ OnLocked(c)
  /\ UNCHANGED << now, sideVars, dbVars, dbLock, memVars, w2m, web, wpc >>

\* the frames of a peer that registers, asks for jobs and reports results
WorkMsgs == {msg \in AnyMsgs : msg.type \in {"register", "request_job", "job_result"}}

\* the peer writes one of the frames msgs once it has read every frame sent
\* to it; the session thread reads it
PeerSendOf(c, msgs) ==
  /\ wpc[c].pc = "peer"
  /\ m2w[c] = << >>
  /\ \E msg \in msgs : Handle(c, msg)
  /\ UNCHANGED w2m

PeerSend(c) ==
  /\ pc[c] = "await_register" => Load < MaxLoad
  /\ PeerSendOf(c, WorkMsgs)

\* the peer reads the next frame sent to it
PeerRead(c) ==
  /\ wpc[c].pc = "peer"
  /\ m2w[c] /= << >>
  /\ m2w' = [m2w EXCEPT ![c] = Tail(@)]
  /\ UNCHANGED << now, sideVars, dbVars, dbLock, memVars, pc, sel, w2m, web, wpc >>

\* SpecRetry: sessions completing jobs while other sessions hold the write
\* lock
NextRetry ==
  \/ CreateUser
  \/ \E t \in DOMAIN web, u \in UserIds, d \in JobDemands, p \in Priorities :
       Load < MaxLoad /\ SubmitCheck(t, u, d, p)
  \/ \E t \in DOMAIN web : SubmitInsert(t)
  \/ \E c \in ConnIds : PeerSend(c)
  \/ \E c \in ConnIds : PeerRead(c)
  \/ \E c \in ConnIds : DispatchUpdate(c)
  \/ \E c \in ConnIds : DispatchDelete(c)
  \/ \E c \in ConnIds : DispatchCommit(c)
  \/ \E c \in ConnIds : DispatchSend(c)
  \/ \E c \in ConnIds : CompleteCommit(c)
  \/ \E c \in ConnIds : CompleteLocked(c)
  \/ \E c \in ConnIds : CompleteSelect(c)
  \/ \E c \in ConnIds : LogWrite(c)
  \/ \E c \in ConnIds : LogLocked(c)

SpecRetry == InitRetry /\ [][NextRetry]_vars

\* ------------------------------------ workers asking for jobs (SpecDispatch)

\* the frames of a peer that registers and asks for jobs
AskMsgs == {msg \in AnyMsgs : msg.type \in {"register", "request_job"}}

PeerAsk(c) == PeerSendOf(c, AskMsgs)

\* SpecDispatch: up to MaxQueue jobs and workers of both kinds asking for them
NextDispatch ==
  \/ CreateUser
  \/ \E t \in DOMAIN web, u \in UserIds, d \in JobDemands, p \in Priorities :
       jobSeq + PendingInserts < MaxQueue /\ SubmitCheck(t, u, d, p)
  \/ \E t \in DOMAIN web : SubmitInsert(t)
  \/ \E c \in ConnIds : PeerAsk(c)
  \/ \E c \in ConnIds : PeerRead(c)
  \/ \E c \in ConnIds : DispatchUpdate(c)
  \/ \E c \in ConnIds : DispatchDelete(c)
  \/ \E c \in ConnIds : DispatchCommit(c)
  \/ \E c \in ConnIds : DispatchSend(c)

SpecDispatch == InitRetry /\ [][NextDispatch]_vars

\* a registered peer's request_job (WorkerClient.run sends one each time
\* round its loop)
PeerRequest(c) == PeerSendOf(c, {[type |-> "request_job"]})

\* SpecFair: SpecDispatch with threads that are scheduled fairly: workers
\* that keep asking and reading, and session threads that get the store's
\* write lock when it is free again and again
SpecFair ==
  /\ InitRetry
  /\ [][NextDispatch]_vars
  /\ \A c \in ConnIds :
       /\ WF_vars(PeerRequest(c))
       /\ WF_vars(PeerRead(c))
       /\ SF_vars(DispatchUpdate(c))
       /\ WF_vars(DispatchDelete(c))
       /\ WF_vars(DispatchCommit(c))
       /\ WF_vars(DispatchSend(c))

\* ------------------------------------------- output files (SpecFiles)

\* a text is a sequence of characters; "/", "." and the backslash are
\* characters, any other string stands for a run of letters

\* os.path.dirname(__file__)
manager_dir == << "/", "manager" >>

\* job ids a result may name
JobDirs == { << "j1" >>, << "j2" >> }

\* filenames a result may carry: a, b, ../a, s/a, /a, a\b and ..
FileNames ==
  { << "a" >>, << "b" >>, << ".", ".", "/", "a" >>, << "s", "/", "a" >>, << "/", "a" >>,
    << "a", "\\", "b" >>, << ".", "." >> }

\* an entry of the files list: its name, and whether its content decodes
FileInfos == [filename : FileNames, ok : BOOLEAN]

\* os.path.join of two texts: an absolute second part replaces the first
os_path_join(a, b) ==
  IF b /= << >> /\ Head(b) = "/" THEN b
  ELSE IF a = << >> \/ a[Len(a)] = "/" THEN a \o b
  ELSE a \o << "/" >> \o b

\* the components of a text between its slashes
RECURSIVE Split(_)
Split(text) ==
  IF text = << >> THEN << << >> >>
  ELSE LET rest == Split(Tail(text)) IN
       IF Head(text) = "/" THEN << << >> >> \o rest
       ELSE << << Head(text) >> \o Head(rest) >> \o Tail(rest)

Parent(path) == IF path = << >> THEN << >> ELSE SubSeq(path, 1, Len(path) - 1)

\* the path walk of open(.., 'wb') from directory cur: it ends at a file to
\* create or overwrite, or fails (a missing directory on the way, or the
\* text names a directory)
RECURSIVE Resolve(_, _, _)
Resolve(dirs, cur, comps) ==
  IF comps = << >> THEN [file |-> FALSE, path |-> cur]
  ELSE LET name == Head(comps)
           next == Tail(comps)
       IN IF name = << >> \/ name = << "." >> THEN Resolve(dirs, cur, next)
          ELSE IF name = << ".", "." >> THEN Resolve(dirs, Parent(cur), next)
          ELSE IF Append(cur, name) \in dirs
            THEN Resolve(dirs, Append(cur, name), next)
          ELSE IF next = << >> THEN [file |-> TRUE, path |-> Append(cur, name)]
          ELSE [file |-> FALSE, path |-> cur]

\* the directory a text of plain components names
DirPath(text) == SelectSeq(Split(text), LAMBDA name : name /= << >>)

\* os.path.join(os.path.dirname(__file__), 'job_outputs', job_id)
OutputDir(job_id) ==
  os_path_join(os_path_join(manager_dir, << "job_outputs" >>), job_id)

\* os.makedirs(.., exist_ok=True) raises when a component is a file
makedirs_raises(d, path) == \E i \in 1..Len(path) : SubSeq(path, 1, i) \in d.files

makedirs(d, path) ==
  [d EXCEPT !.dirs = @ \cup { SubSeq(path, 1, i) : i \in 0..Len(path) }]

\* the loop of _save_job_files: the content is decoded, the name is joined
\* to the directory and the file is written; an entry that raises is
\* printed and the loop goes on
RECURSIVE WriteAll(_, _, _)
WriteAll(d, output_dir, files) ==
  IF files = << >> THEN d
  ELSE LET f == Head(files)
           at == Resolve(d.dirs, << >>, Split(os_path_join(output_dir, f.filename)))
       IN WriteAll(IF f.ok /\ at.file
                     THEN [d EXCEPT !.files = @ \cup { at.path }]
                     ELSE d,
                   output_dir, Tail(files))

\* _save_job_files(job_id, files), called for a result with files
SaveJobFiles(job_id, files) ==
  /\ files /= << >>
  /\ disk' = IF makedirs_raises(disk, DirPath(OutputDir(job_id)))
               THEN disk
               ELSE WriteAll(makedirs(disk, DirPath(OutputDir(job_id))),
                             OutputDir(job_id), files)
  /\ UNCHANGED << now, monitor, wire, calc, box, sweep, sock, dbVars, dbLock, memVars, pc, sel, m2w,
                  w2m, web, wpc >>

\* the files lists of a result
FileLists == SeqsUpTo(FileInfos, MaxFiles)

\* SpecFiles: results with output files, one after another
NextFiles ==
  \E job_id \in JobDirs, files \in FileLists : SaveJobFiles(job_id, files)

SpecFiles == Init /\ [][NextFiles]_vars

\* ------------------------------------------- the sandbox (SpecSandbox)

\* the runs a job may take
Runs ==
  [kind : {"exit"}, code : 0..2,
   stdout : { << >>, << "a" >>, << "a", "b" >> }, stderr : { << >>, << "err" >> }]
  \cup [kind : {"timeout", "error", "start"}, code : {0},
        stdout : { << >>, << "a" >>, << "a", "b" >> }, stderr : { << >>, << "err" >> }]

\* _execute_restricted: subprocess.run with capture_output; the output is
\* stdout, then a marker and stderr if there is any; TimeoutExpired and any
\* other exception give an empty output
execute_restricted(run) ==
  IF run.kind = "exit"
    THEN [raised |-> FALSE,
          success |-> run.code = 0,
          output |-> IF run.stderr /= << >>
                       THEN run.stdout \o << "[STDERR]" >> \o run.stderr
                       ELSE run.stdout,
          error |-> IF run.code /= 0 THEN run.stderr ELSE None]
  ELSE IF run.kind = "timeout"
    THEN [raised |-> FALSE, success |-> FALSE, output |-> << >>,
          error |-> << "Job timed out after", "timeout", "seconds" >>]
  ELSE [raised |-> FALSE, success |-> FALSE, output |-> << >>,
        error |-> << "exception" >>]

\* _execute_docker: the container's logs are its stdout and stderr; an
\* exception of container.wait (the time limit among them) gives an empty
\* output; an exception before the container runs is not caught
execute_docker(run) ==
  IF run.kind = "exit"
    THEN [raised |-> FALSE,
          success |-> run.code = 0,
          output |-> run.stdout \o run.stderr,
          error |-> IF run.code = 0 THEN None
                    ELSE << "Exit code: ", DigitChars[run.code + 1] >>]
  ELSE IF run.kind \in {"timeout", "error"}
    THEN [raised |-> FALSE, success |-> FALSE, output |-> << >>,
          error |-> << "Timeout or error: ", "exception" >>]
  ELSE [NoResult EXCEPT !.raised = TRUE]

\* SandboxExecutor.execute
execute(use_docker, run) ==
  IF use_docker THEN execute_docker(run) ELSE execute_restricted(run)

\* one call of execute, whatever was called before
Execute(use_docker, run) ==
  /\ box' = [use_docker |-> use_docker, run |-> run,
             result |-> execute(use_docker, run),
             calls |-> Min(box.calls + 1, MaxRuns)]
  /\ UNCHANGED << now, monitor, wire, calc, disk, sweep, sock, dbVars, dbLock, memVars, pc, sel,
                  m2w, w2m, web, wpc >>

\* SpecSandbox: jobs run by the executor, one after another
NextSandbox == \E use_docker \in BOOLEAN, run \in Runs : Execute(use_docker, run)

SpecSandbox == Init /\ [][NextSandbox]_vars

\* ------------------------------------------- file collection (SpecSweep)

\* what a job may leave in the swept directory: regular files and
\* directories; a file may be one the worker cannot open
DirEntries ==
  [name : {"report.pdf", "huge.bin", ".hidden", "job.py", "output"},
   kind : {"file"},
   size : {0, max_file_size, max_file_size + 1},
   readable : BOOLEAN]
  \cup [name : {"output", "sub"}, kind : {"dir"}, size : {0}, readable : {TRUE}]

\* the entries of a directory have different names
Listings ==
  {l \in SeqsUpTo(DirEntries, MaxEntries) :
     \A i, j \in 1..Len(l) : l[i].name = l[j].name => i = j}

\* glob's '*' does not match a name that starts with a dot
glob_star(listing) == SelectSeq(listing, LAMBDA e : e.name /= ".hidden")

\* base64.b64encode of the bytes of the file of that name
b64encode(name) == << "base64", name >>

\* the loop of _collect_output_files over the paths glob returned
RECURSIVE CollectFrom(_, _)
CollectFrom(paths, exclude) ==
  IF paths = << >> THEN << >>
  ELSE LET e == Head(paths)
           rest == CollectFrom(Tail(paths), exclude)
       IN  IF e.name \in exclude THEN rest
           ELSE IF e.kind /= "file" THEN rest
           ELSE IF e.size > max_file_size THEN rest
           ELSE IF ~e.readable THEN rest
           ELSE << [filename |-> e.name, size |-> e.size,
                    content |-> b64encode(e.name)] >> \o rest

\* _collect_output_files
collect_output_files(listing, exclude) == CollectFrom(glob_star(listing), exclude)

\* one sweep: of the output directory (nothing excluded) or of the working
\* directory (job.py and output excluded)
Collect(listing, exclude) ==
  /\ sweep' = [listing |-> listing, exclude |-> exclude,
               files |-> collect_output_files(listing, exclude),
               calls |-> Min(sweep.calls + 1, MaxRuns)]
  /\ UNCHANGED << now, monitor, wire, calc, disk, box, sock, dbVars, dbLock, memVars, pc,
                  sel, m2w, w2m, web, wpc >>

NextSweep ==
  \E listing \in Listings, exclude \in {{}, {"job.py", "output"}} :
    Collect(listing, exclude)

SpecSweep == Init /\ [][NextSweep]_vars

\* ------------------------------ heartbeats and the monitor (SpecBeat)

\* the frames of a peer that registers and sends heartbeats
BeatMsgs == {msg \in AnyMsgs : msg.type \in {"register", "heartbeat"}}

\* such a peer's frame reaches the session thread, at any time
Beats(c) ==
  /\ wpc[c].pc = "any"
  /\ pc[c] = "await_register" => Load < MaxLoad
  /\ pc[c] = "ready" => c \in connections
  /\ \E msg \in BeatMsgs : Handle(c, msg)
  /\ UNCHANGED w2m

\* SpecBeat: session threads that handle heartbeats while the monitor thread
\* is anywhere in check_timeouts
NextBeat ==
  \/ CheckTimeouts
  \/ MonitorDisconnect
  \/ MonitorSleep
  \/ \E c \in ConnIds : Beats(c)
  \/ \E c \in ConnIds : SessionClosed(c)

SpecBeat == Init /\ [][NextBeat]_vars

\* ------------------------------- the worker client's socket (SpecSend)

\* WorkerClient._send_message, up to its call of socket.send(header + msg)
SockSend(t) ==
  /\ sock.thr[t].pc = "idle"
  /\ sock.thr[t].todo /= << >>
  /\ sock' = [sock EXCEPT !.thr[t] =
                [pc |-> "send", data |-> encode(Head(@.todo)), pieces |-> 0,
                 todo |-> Tail(@.todo)]]
  /\ UNCHANGED << now, monitor, wire, calc, disk, box, sweep, dbVars, dbLock, memVars, pc,
                  sel, m2w, w2m, web, wpc >>

\* socket.send: the next n bytes of the buffer reach the stream (no lock is
\* held by the caller, so the other thread's bytes may come in between)
SockCopy(t, n) ==
  /\ sock.thr[t].pc = "send"
  /\ n \in 1..Len(sock.thr[t].data)
  /\ n = Len(sock.thr[t].data) \/ sock.thr[t].pieces + 1 < MaxPieces
  /\ sock' = [sock EXCEPT
                !.stream = @ \o SubSeq(sock.thr[t].data, 1, n),
                !.thr[t].data = SubSeq(@, n + 1, Len(@)),
                !.thr[t].pieces = @ + 1]
  /\ UNCHANGED << now, monitor, wire, calc, disk, box, sweep, dbVars, dbLock, memVars, pc,
                  sel, m2w, w2m, web, wpc >>

\* socket.send returns the number of bytes it has sent, which _send_message
\* does not look at: what is left of the buffer is never written
SockReturn(t) ==
  /\ sock.thr[t].pc = "send"
  /\ sock.thr[t].pieces > 0
  /\ sock' = [sock EXCEPT !.thr[t].pc = "idle", !.thr[t].data = << >>,
                          !.thr[t].pieces = 0]
  /\ UNCHANGED << now, monitor, wire, calc, disk, box, sweep, dbVars, dbLock, memVars, pc,
                  sel, m2w, w2m, web, wpc >>

\* SpecSend: the client's main loop and its heartbeat thread write frames
NextSend ==
  \/ \E t \in DOMAIN sock.thr : SockSend(t)
  \/ \E t \in DOMAIN sock.thr, n \in 1..(header_len + 3) : SockCopy(t, n)
  \/ \E t \in DOMAIN sock.thr : SockReturn(t)

SpecSend == Init /\ [][NextSend]_vars

\* ================================================================ claims

\* the jobs in running state assigned to worker c
RunningFor(c) ==
  {j \in DOMAIN jobs : jobs[j].status = "running" /\ jobs[j].worker_id = c}

\* the queue rows of job j
QueueRows(j) == {q \in job_queue : q.job_id = j}

Terminal(status) == status \in {"completed", "failed"}

\* session c's thread has just run the dispatch SELECT and holds a job
Selects(c) == pc[c] = "ready" /\ pc'[c] = "update"

\* C1: workers racing for one queued job: the job is sent to one of them only,
\* so no two workers of the in-memory table hold the same current job.
C1_OneWorkerPerJob ==
  \A a \in DOMAIN workers : \A b \in DOMAIN workers :
    (a /= b /\ workers[a].current_job /= NoId)
      => workers[a].current_job /= workers[b].current_job

\* C2: every user's balance is the sum of the signed amounts of that user's
\* credit transactions.
C2_BalanceIsTransactionSum ==
  \A u \in DOMAIN credits : credits[u] = SumAmounts(transactions, u)

\* the only moves of a job's status: pending -> running -> completed | failed
LegalMove(old, new) ==
  \/ new = old
  \/ (old.status = "pending" /\ new.status = "running")
  \/ (old.status = "running" /\ Terminal(new.status))

\* C3: a job's status only moves pending -> running -> completed or failed,
\* and a completed or failed job never changes again.
C3_JobLifecycle ==
  [][\A j \in DOMAIN jobs \cap DOMAIN jobs' :
       /\ LegalMove(jobs[j], jobs'[j])
       /\ Terminal(jobs[j].status) => jobs'[j] = jobs[j]]_vars

\* C4: no completed or failed job has a row in the job queue.
C4_NoTerminalJobQueued ==
  \A q \in job_queue :
    q.job_id \in DOMAIN jobs => ~Terminal(jobs[q.job_id].status)

\* C5: every pending job has exactly one row in the job queue.
C5_PendingJobQueuedOnce ==
  \A j \in DOMAIN jobs :
    jobs[j].status = "pending" => Cardinality(QueueRows(j)) = 1

\* C5's case: a job was dispatched and the history was not cleared since,
\* while another job is still pending with its one queue row
C5_Witness ==
  \E j \in DOMAIN jobs : \E k \in DOMAIN jobs :
    /\ jobs[j].status = "pending" /\ Cardinality(QueueRows(j)) = 1
    /\ jobs[k].status = "running" /\ QueueRows(k) = {}

\* C6: a worker that is busy in the in-memory table is the worker of exactly
\* one running job.
C6_BusyWorkerHasOneRunningJob ==
  \A c \in DOMAIN workers :
    workers[c].status = "busy" => Cardinality(RunningFor(c)) = 1

\* C7: no job is sent to a worker while the job sent to it before is still
\* unacknowledged: when the session thread sends a job, the worker's previous
\* current job has been cleared by its job_result.
C7_NoJobBeforeAck ==
  [][\A c \in DOMAIN workers :
       (pc[c] = "assigned" /\ pc'[c] = "ready")
         => workers[c].current_job = NoId]_vars

\* C8: dispatch never picks a job for a worker whose durable status is paused.
C8_PausedNeverPicked ==
  [][\A c \in ConnIds :
       (Selects(c) /\ c \in DOMAIN dbWorkers)
         => dbWorkers[c].status /= "paused"]_vars

\* C9: the job a request_job selects has the highest queue priority among the
\* pending queued jobs that fit the worker.
C9_HighestPriorityFirst ==
  [][\A c \in ConnIds :
       Selects(c) =>
         \A q \in Candidates(dbWorkers[c]) :
           \A r \in QueueRows(sel'[c].job) : q.priority <= r.priority]_vars

\* C9's case: a job of priority 9 was selected while a job of priority 5
\* that fits the same worker is pending in the queue
C9_Witness ==
  \E c \in DOMAIN dbWorkers :
    /\ pc[c] = "update"
    /\ \E r \in QueueRows(sel[c].job) : \E q \in Candidates(dbWorkers[c]) :
         q.priority < r.priority

\* C10: among pending jobs of equal priority that fit the worker, the one
\* queued earlier (the smaller queue row id) is selected first.
C10_FifoWithinPriority ==
  [][\A c \in ConnIds :
       Selects(c) =>
         \A q \in Candidates(dbWorkers[c]) :
           \A r \in QueueRows(sel'[c].job) :
             q.priority = r.priority => r.id <= q.id]_vars

\* C11: every job marked running for a worker is within that worker's cpu
\* cores and ram, and needs a gpu only if the worker reported one.
C11_RunningJobFitsWorker ==
  \A j \in DOMAIN jobs :
    (jobs[j].status = "running" /\ jobs[j].worker_id \in DOMAIN dbWorkers) =>
      LET w == dbWorkers[jobs[j].worker_id] IN
        /\ jobs[j].cpu_required <= w.cpu_cores
        /\ jobs[j].ram_required_gb <= w.ram_gb
        /\ (jobs[j].gpu_required = 0 \/ w.gpu_name /= NoText)

\* C11's case: a worker without a gpu runs a job while a gpu job of higher
\* priority, within its cores and ram, is still pending in the queue
C11_Witness ==
  \E j \in DOMAIN jobs : \E q \in job_queue :
    /\ jobs[j].status = "running" /\ jobs[j].worker_id \in DOMAIN dbWorkers
    /\ dbWorkers[jobs[j].worker_id].gpu_name = NoText
    /\ q.job_id \in DOMAIN jobs /\ jobs[q.job_id].status = "pending"
    /\ jobs[q.job_id].gpu_required = 1
    /\ jobs[q.job_id].cpu_required <= dbWorkers[jobs[j].worker_id].cpu_cores
    /\ q.priority > jobs[j].priority

\* C12: a submission that passed the balance check commits in one step: the
\* submitter is debited the computed cost, exactly one job appears, pending,
\* with credit_cost = credit_reward = cost, with exactly one queue row, and
\* exactly one job_submitted transaction of amount -cost is appended; no other
\* job, queue row or balance changes.
C12_SubmitAllOrNothing ==
  [][\A t \in DOMAIN web :
       (web[t].pc = "insert" /\ web'[t].pc = "idle") =>
         LET r == web[t] IN
         /\ credits' = [credits EXCEPT ![r.user] = @ - r.cost]
         /\ \E j \in DOMAIN jobs' \ DOMAIN jobs :
              /\ DOMAIN jobs' = DOMAIN jobs \cup {j}
              /\ jobs'[j].status = "pending"
              /\ jobs'[j].submitter_id = r.user
              /\ jobs'[j].credit_cost = r.cost
              /\ jobs'[j].credit_reward = r.cost
              /\ job_queue \subseteq job_queue'
              /\ Cardinality(job_queue' \ job_queue) = 1
              /\ \A q \in job_queue' \ job_queue : q.job_id = j
              /\ transactions' = Append(transactions,
                     [user_id |-> r.user, amount |-> 0 - r.cost,
                      transaction_type |-> "job_submitted", job_id |-> j])
         /\ \A k \in DOMAIN jobs : jobs'[k] = jobs[k]]_vars

\* C12's case: the first submission has committed: one transaction, the
\* balance is the starting balance less the cost, the job is pending and queued
C12_Witness ==
  /\ Len(transactions) = 1
  /\ transactions[1].transaction_type = "job_submitted"
  /\ transactions[1].amount < 0
  /\ credits[transactions[1].user_id] = STARTING_CREDITS + transactions[1].amount
  /\ transactions[1].job_id \in DOMAIN jobs
  /\ jobs[transactions[1].job_id].status = "pending"
  /\ Cardinality(QueueRows(transactions[1].job_id)) = 1

\* C13: a submission by an unknown user or by a user whose balance is below
\* the cost is refused with the reason and changes nothing in the store; only
\* a known user with balance >= cost goes on to insert.
C13_RefusedSubmitChangesNothing ==
  [][\A t \in DOMAIN web :
       (web[t].pc = "idle" /\ web'[t] /= web[t]) =>
         /\ web'[t].pc = "idle" =>
              /\ web'[t].result = "Insufficient credits"
              /\ UNCHANGED dbVars
         /\ web'[t].pc = "insert" =>
              /\ web'[t].user \in DOMAIN credits
              /\ credits[web'[t].user] >= web'[t].cost]_vars

\* C13's case: every request thread was last refused, after a submission had
\* taken the balance below the cost of the cheapest job
C13_Witness ==
  /\ \A t \in DOMAIN web :
       web[t].pc = "idle" /\ web[t].result = "Insufficient credits"
  /\ Len(transactions) = 1
  /\ jobSeq = 1
  /\ \A u \in DOMAIN credits : \A d \in JobDemands :
       credits[u] < calculate_job_cost(d.cpu, d.ram, d.gpu, d.timeout)

\* C14: no user's balance is ever negative.
C14_BalanceNeverNegative ==
  \A u \in DOMAIN credits : credits[u] >= 0

C16_OnlineOnlyWhileConnected ==
  \A w \in DOMAIN dbWorkers :
    dbWorkers[w].status \in {"online", "busy"} =>
      (w \in DOMAIN workers /\ w \in connections)

\* C17: a registered worker whose heartbeats stop is eventually gone from the
\* in-memory table, its socket closed, and its row marked offline.
C17_SilentWorkerGoesOffline ==
  \A c \in ConnIds :
    (c \in DOMAIN workers) ~>
      (/\ c \notin DOMAIN workers
       /\ c \notin connections
       /\ c \in DOMAIN dbWorkers
       /\ dbWorkers[c].status = "offline")

\* C17's case: the monitor, not the session, has disconnected a worker whose
\* last heartbeat was older than the timeout: the session thread is still in
\* its receive
C17_Witness ==
  \E c \in DOMAIN dbWorkers :
    /\ pc[c] = "ready"
    /\ c \notin DOMAIN workers
    /\ c \notin connections
    /\ dbWorkers[c].status = "offline"
    /\ now > heartbeat_timeout * TicksPerSec

IsPrefix(p, q) == Len(p) <= Len(q) /\ SubSeq(q, 1, Len(p)) = p

\* C18: however the transport splits the bytes, the reader decodes exactly
\* the messages written, in order: it never gives up, what it has decoded is
\* a prefix of what was sent, and once every byte is read it has them all.
C18_FrameRoundTrip ==
  /\ wire.pc /= "closed"
  /\ IsPrefix(wire.got, wire.sent)
  /\ (wire.stream = << >> /\ wire.pc = "header") => wire.got = wire.sent

\* C19: whenever calculate_job_cost has returned, its result is
\* 5 + 2*cpu + ram + 10*gpu + floor(timeout / 60) of the arguments of that
\* call, whatever the store holds and whatever was called before.
C19_CostFormula ==
  calc.calls > 0 =>
    \E q \in -1..5 :
      /\ 60 * q <= calc.timeout /\ calc.timeout < 60 * (q + 1)
      /\ calc.result = 5 + 2 * calc.cpu + calc.ram + 10 * calc.gpu + q

\* C19's case: a second call, with a user in the store, for a timeout that
\* is no multiple of a minute
C19_Witness ==
  /\ calc.calls = 2
  /\ DOMAIN credits /= {}
  /\ calc.timeout = 119
  /\ calc.gpu = 1
  /\ calc.result = 5 + 2 * calc.cpu + calc.ram + 10 + 1

\* C20: in the READY state a frame whose type is not heartbeat, request_job,
\* job_result or disconnect closes the session and the worker is offline.
C20_UnknownTypeClosesSession ==
  [][\A c \in ConnIds :
       (/\ pc[c] = "ready"
        /\ w2m[c] /= << >>
        /\ w2m'[c] = Tail(w2m[c])
        /\ Head(w2m[c]).type \notin KnownTypes)
       => (/\ pc'[c] = "closed"
           /\ c \notin DOMAIN workers'
           /\ dbWorkers'[c].status = "offline")]_vars

\* the frame the manager has just sent on connection c, if any
Sent(c) ==
  IF Len(m2w'[c]) > Len(m2w[c]) THEN { m2w'[c][Len(m2w'[c])] } ELSE {}

\* C21: when the manager sends job_received for a job, complete_job's
\* transaction for it has committed: the job is in the store, completed or
\* failed, with the reported output recorded.
C21_AckAfterCommit ==
  [][\A c \in ConnIds : \A frame \in Sent(c) :
       frame.type = "job_received" =>
         /\ frame.job_id \in DOMAIN jobs'
         /\ Terminal(jobs'[frame.job_id].status)
         /\ jobs'[frame.job_id].result_output /= NoText]_vars

\* the check of the claim: no slash, no backslash, no two dots in a row
SafeName(text) ==
  /\ \A i \in DOMAIN text : text[i] /= "/" /\ text[i] /= "\\"
  /\ \A i \in 1..(Len(text) - 1) : ~(text[i] = "." /\ text[i + 1] = ".")

\* C22: saving the files of a result for job J writes exactly the entries
\* whose name has no '/', no backslash and no '..', each directly inside
\* job_outputs/J/; an entry with such a name is skipped and the others are
\* still saved.
C22_UnsafeNamesSkipped ==
  [][\A job_id \in JobDirs : \A files \in FileLists :
       (SaveJobFiles(job_id, files) /\ ~makedirs_raises(disk, DirPath(OutputDir(job_id))))
         => disk'.files = disk.files \cup
              { Append(DirPath(OutputDir(job_id)), files[i].filename) :
                  i \in { k \in DOMAIN files :
                            files[k].ok /\ SafeName(files[k].filename) } }]_vars

\* C23: in AWAIT_REGISTER, a first message that is not a register (another
\* type, a frame that cannot be read, the peer closing) closes the connection
\* and creates no worker row, no in-memory entry and no activity record.
C23_BadFirstMessageCloses ==
  [][\A c \in ConnIds :
       (/\ pc[c] = "await_register"
        /\ w2m[c] /= << >>
        /\ w2m'[c] = Tail(w2m[c])
        /\ Head(w2m[c]).type /= "register")
       => (/\ pc'[c] = "closed"
           /\ dbWorkers' = dbWorkers
           /\ workers' = workers
           /\ connections' = connections
           /\ activity' = activity)]_vars

\* C23's case: one connection was closed on its first message and has no
\* row or entry, while the other one registered and is served
C23_Witness ==
  \E c \in ConnIds : \E d \in ConnIds :
    /\ pc[c] = "closed"
    /\ c \notin DOMAIN dbWorkers /\ c \notin DOMAIN workers /\ c \notin connections
    /\ pc[d] = "ready" /\ d \in DOMAIN dbWorkers
    /\ Cardinality(activity) = 1

\* session c's thread ends: its loop is left and the finally clause runs
SessionEnds(c) == pc[c] = "ready" /\ pc'[c] = "closed"

\* the health monitor takes worker c off its timed_out list
MonitorDrops(c) == c \in monitor.timed_out /\ c \notin monitor'.timed_out

\* C24: however a session ends (its receive fails, a disconnect message, the
\* health monitor's timeout), the worker is then in neither in-memory map, and
\* the step that takes it out of the table marks its row offline; a second
\* disconnect of the same id, whichever of session and monitor comes second,
\* changes nothing in memory or in the store.
C24_DisconnectIdempotent ==
  [][\A c \in ConnIds :
       /\ (SessionEnds(c) \/ MonitorDrops(c)) =>
            (c \notin DOMAIN workers' /\ c \notin connections')
       /\ (c \in DOMAIN workers /\ c \notin DOMAIN workers') =>
            (c \in DOMAIN dbWorkers' /\ dbWorkers'[c].status = "offline")
       /\ ((SessionEnds(c) \/ MonitorDrops(c)) /\ c \notin DOMAIN workers) =>
            UNCHANGED << memVars, dbVars >>]_vars

\* C24's case: both orders at once: worker c's session ended after the
\* monitor had listed it (the monitor's disconnect comes second), and worker
\* d was disconnected by the monitor while its session thread still runs (the
\* session's disconnect comes second)
C24_Witness ==
  \E c \in ConnIds : \E d \in ConnIds :
    /\ pc[c] = "closed" /\ c \in monitor.timed_out
    /\ c \notin DOMAIN workers /\ c \in DOMAIN dbWorkers
    /\ dbWorkers[c].status = "offline"
    /\ pc[d] = "ready" /\ d \notin DOMAIN workers /\ d \notin connections
    /\ d \in DOMAIN dbWorkers /\ dbWorkers[d].status = "offline"

\* C25: when a worker is disconnected, by its session or by the health
\* monitor, every job stays as it was (a running job keeps its status and its
\* worker_id), no queue row appears, and no balance or transaction changes.
C25_DisconnectLeavesJobs ==
  [][\A c \in ConnIds :
       (c \in DOMAIN workers /\ c \notin DOMAIN workers') =>
         UNCHANGED << jobs, job_queue, jobSeq, credits, transactions >>]_vars

\* C25's case: the monitor has timed out a worker whose job is still running
\* under its id, out of the queue, and a second job is waiting in the queue
C25_Witness ==
  \E c \in DOMAIN dbWorkers : \E j \in DOMAIN jobs : \E k \in DOMAIN jobs :
    /\ c \notin DOMAIN workers /\ dbWorkers[c].status = "offline"
    /\ now > heartbeat_timeout * TicksPerSec
    /\ jobs[j].status = "running" /\ jobs[j].worker_id = c /\ QueueRows(j) = {}
    /\ jobs[k].status = "pending" /\ QueueRows(k) /= {}

\* C26: a request_job is answered no_job only when no pending queued job
\* fits the worker; otherwise a fitting job is selected that no other fitting
\* job outranks (higher priority, or equal priority and queued earlier),
\* whatever unfit jobs are ahead of it in the queue, and that job is then sent.
C26_UnfitJobsDoNotBlock ==
  [][\A c \in ConnIds :
       /\ (\E frame \in Sent(c) : frame.type = "no_job") =>
            Candidates(dbWorkers[c]) = {}
       /\ Selects(c) =>
            \E r \in Candidates(dbWorkers[c]) :
              /\ r.job_id = sel'[c].job
              /\ \A q \in Candidates(dbWorkers[c]) :
                   \/ r.priority > q.priority
                   \/ (r.priority = q.priority /\ r.queued_at <= q.queued_at)
       /\ (pc[c] = "assigned" /\ pc'[c] = "ready") =>
            Sent(c) = { [type |-> "job", job_id |-> sel[c].job] }]_vars

\* C26's case: J1 (3 cpus, no gpu) was queued before J2 (1 cpu, gpu) with no
\* lower priority; the 2-core gpu worker was given J2 and the 4-core worker
\* J1, and the queue is empty
C26_Witness ==
  /\ DOMAIN jobs = {1, 2}
  /\ jobs[1].cpu_required = 3 /\ jobs[1].gpu_required = 0
  /\ jobs[2].cpu_required = 1 /\ jobs[2].gpu_required = 1
  /\ jobs[1].priority >= jobs[2].priority
  /\ \A j \in DOMAIN jobs :
       /\ jobs[j].status = "running"
       /\ jobs[j].worker_id \in DOMAIN workers
       /\ workers[jobs[j].worker_id].current_job = j
  /\ dbWorkers[jobs[1].worker_id].cpu_cores = 4
  /\ dbWorkers[jobs[2].worker_id].gpu_name /= NoText
  /\ job_queue = {}
  /\ \A c \in ConnIds : m2w[c] = << >>

\* C27: in every state a running job has no queue row and has a worker_id
\* and a started_at, and a pending job still has its queue row: the status
\* change and the removal from the queue are never seen apart.
C27_DispatchAtomic ==
  \A j \in DOMAIN jobs :
    /\ jobs[j].status = "running" =>
         /\ QueueRows(j) = {}
         /\ jobs[j].worker_id /= NoId
         /\ jobs[j].started_at /= NoTime
    /\ jobs[j].status = "pending" => QueueRows(j) /= {}

\* C27's case: a session is inside its dispatch transaction, past the UPDATE
\* and the DELETE and before the commit: the job it selected is still pending
\* and queued for everyone else, while a job dispatched before is running
C27_Witness ==
  \E c \in ConnIds : \E k \in DOMAIN jobs :
    /\ pc[c] = "commit" /\ dbLock = c
    /\ sel[c].job \in DOMAIN jobs
    /\ jobs[sel[c].job].status = "pending" /\ QueueRows(sel[c].job) /= {}
    /\ jobs[k].status = "running" /\ jobs[k].worker_id /= NoId
    /\ jobs[k].started_at /= NoTime /\ QueueRows(k) = {}

\* C28: complete_job makes at most max_retries attempts; it goes to a
\* further attempt, or gives up, only from an attempt that has written
\* nothing (its transaction not committed), and it gives up only on the last
\* attempt: so the effects of one result are applied once.
C28_RetryWithoutPartialEffect ==
  [][\A c \in ConnIds :
       /\ sel[c].attempt < max_retries
       /\ sel'[c].attempt > sel[c].attempt => pc[c] = "complete"
       /\ (pc[c] \in {"complete", "log"} /\ pc'[c] = "ready" /\ Locked(c)) =>
            (pc[c] = "complete" /\ sel[c].attempt = max_retries - 1)]_vars

\* a whole header of ten zero digits is read in this step
ReadsZeroFrame ==
  /\ wire.pc = "header"
  /\ IsPrefix(zfill(0, header_len), wire.stream)
  /\ wire'.stream = SubSeq(wire.stream, header_len + 1, Len(wire.stream))

\* C29: a receiver that reads a zero-length frame (header 0000000000) goes on
\* to read the next frame: it does not give up the connection, on the manager
\* side and on the worker side, and takes the frame for nothing or for no_job.
C29_ZeroFrameIsKeepalive ==
  [][ReadsZeroFrame =>
        /\ wire'.pc = "header"
        /\ wire'.got \in { wire.got, Append(wire.got, no_job) }]_vars

\* an error text that is there and is not empty
NonEmpty(text) == text /= None /\ text /= << >>

\* C30: execute always returns a result; for a run that exits non-zero, runs
\* out of time or makes the executor fail, the result has success = false and
\* a non-empty error (one that names the timeout when the time ran out), and
\* its output starts with the stdout the run had written.
C30_FailedRunStillReported ==
  box.calls > 0 =>
    /\ ~box.result.raised
    /\ (box.run.kind /= "exit" \/ box.run.code /= 0) =>
         /\ ~box.result.success
         /\ NonEmpty(box.result.error)
         /\ box.run.kind = "timeout" =>
              box.result.error[1] \in {"Job timed out after", "Timeout or error: "}
         /\ IsPrefix(box.run.stdout, box.result.output)

\* C31: a sweep of the output directory returns one entry for each regular
\* file of at most 10 MiB that the directory holds, and for nothing else; a
\* larger file does not keep the other files from being returned.
C31_CollectsFilesUpToLimit ==
  (sweep.calls > 0 /\ sweep.exclude = {}) =>
    /\ \A i \in 1..Len(sweep.listing) :
         LET e == sweep.listing[i]
         IN  (e.kind = "file" /\ e.size <= max_file_size)
               <=> Cardinality({k \in 1..Len(sweep.files) :
                                  sweep.files[k].filename = e.name}) = 1
    /\ \A k \in 1..Len(sweep.files) :
         \E i \in 1..Len(sweep.listing) : sweep.listing[i].name = sweep.files[k].filename

\* C32: whatever integers calculate_job_cost is called with (zero and
\* negative ones among them), its result is at least the minimum job cost.
C32_CostAtLeastFloor == calc.calls > 0 => calc.result >= MIN_JOB_COST

\* C33: a step that closes session c (its first message is no register, its
\* receive fails, a disconnect) leaves every other session where it is, with
\* its in-memory entry and its connection as they were, leaves the sessions
\* not yet accepted acceptable, and leaves the health monitor where it is.
C33_FaultClosesOneSession ==
  [][\A c \in ConnIds :
       (pc[c] /= "closed" /\ pc'[c] = "closed") =>
         /\ \A d \in ConnIds \ {c} :
              /\ pc'[d] = pc[d]
              /\ d \in DOMAIN workers <=> d \in DOMAIN workers'
              /\ d \in DOMAIN workers => workers'[d] = workers[d]
              /\ d \in connections <=> d \in connections'
         /\ monitor' = monitor]_vars

\* C33's case: session c was registered and is closed, session d is still
\* served with its entry and its connection, and the monitor is at work
C33_Witness ==
  \E c \in ConnIds : \E d \in ConnIds \ {c} :
    /\ pc[c] = "closed" /\ c \in DOMAIN dbWorkers /\ c \notin DOMAIN workers
    /\ pc[d] = "ready" /\ d \in DOMAIN workers /\ d \in connections
    /\ monitor.pc = "disconnect"

\* C34: no job id has more than one job_completed credit transaction,
\* whatever job_result messages arrive (so its reward is added to a balance
\* at most once).
C34_RewardedOnce ==
  \A j \in JobIds :
    Cardinality({i \in DOMAIN transactions :
                   /\ transactions[i].transaction_type = "job_completed"
                   /\ transactions[i].job_id = j}) <= 1

\* C35: when the handling of a job_result of session c runs complete_job,
\* either the job named is running and assigned to worker c, or no job row,
\* queue row, balance or transaction changes.
C35_ResultOnlyForOwnRunningJob ==
  [][\A c \in ConnIds :
       (pc[c] = "complete" /\ pc'[c] = "ready") =>
         \/ /\ sel[c].job \in DOMAIN jobs
            /\ jobs[sel[c].job].status = "running"
            /\ jobs[sel[c].job].worker_id = c
         \/ UNCHANGED << jobs, job_queue, credits, transactions >>]_vars

\* the jobs the manager has sent to worker c in reply to a request_job
Answered(c) ==
  Cardinality({j \in DOMAIN jobs : jobs[j].worker_id = c})
    - (IF pc[c] = "assigned" THEN 1 ELSE 0)

\* the job_result messages worker c has sent: those the manager has carried
\* out, the one it is carrying out, and those still on the connection
ResultsSent(c) ==
  Cardinality({j \in DOMAIN jobs :
                 jobs[j].worker_id = c /\ jobs[j].status \in {"completed", "failed"}})
    + (IF pc[c] = "complete" THEN 1 ELSE 0)
    + Len(SelectSeq(w2m[c], LAMBDA f : f.type = "job_result"))

\* C36: what the worker client reads as the reply to a request_job is a job
\* or no_job, never the job_received of an earlier result, and the manager
\* has never sent it two jobs more than it has sent results.
C36_ReplyBelongsToRequest ==
  /\ [][\A c \in ConnIds :
          (wpc[c].pc = "wait_reply" /\ m2w[c] /= << >> /\ m2w'[c] = Tail(m2w[c]))
            => Head(m2w[c]).type \in {"job", "no_job"}]_vars
  /\ [](\A c \in ConnIds : Answered(c) <= ResultsSent(c) + 1)

\* C37: in the manager's in-memory table a worker is busy exactly when it has
\* a current job (so a heartbeat of a worker with a job leaves it busy).
C37_BusyIffCurrentJob ==
  \A c \in DOMAIN workers :
    workers[c].status = "busy" <=> workers[c].current_job /= NoId

\* the JSON bodies the worker client's threads send
ClientBodies == { << "{", "r", "}" >>, << "{", "j", "}" >>, << "{", "h", "}" >> }

\* whether a byte sequence is whole frames one after another
RECURSIVE WholeFrames(_)
WholeFrames(s) ==
  \/ s = << >>
  \/ \E b \in ClientBodies :
       /\ IsPrefix(encode(b), s)
       /\ WholeFrames(SubSeq(s, Len(encode(b)) + 1, Len(s)))

\* C38: whenever neither of the worker client's threads is inside a send, the
\* bytes written to the socket are whole frames one after another.
C38_FramesNeverInterleave ==
  (\A t \in DOMAIN sock.thr : sock.thr[t].pc = "idle") => WholeFrames(sock.stream)

\* C39: when the health monitor disconnects a worker that is in the table,
\* that worker's last heartbeat is older than the heartbeat timeout at that
\* moment.
C39_MonitorDropsOnlyStale ==
  [][\A c \in ConnIds :
       (MonitorDrops(c) /\ c \in DOMAIN workers) => TimedOut(c)]_vars

\* job j is pending in the queue and fits the registered worker c
WaitsFor(j, c) ==
  /\ j \in DOMAIN jobs /\ jobs[j].status = "pending"
  /\ c \in DOMAIN workers /\ c \in DOMAIN dbWorkers
  /\ \E q \in QueueRows(j) : Fits(q, dbWorkers[c])

\* C40: a pending job that fits a connected worker which keeps asking for
\* jobs is running in the end, and a request selects another job before it
\* only if that job's queue row has no lower priority.
C40_FittingJobIsDispatched ==
  /\ \A j \in JobIds : \A c \in ConnIds :
       WaitsFor(j, c) ~> (j \in DOMAIN jobs /\ jobs[j].status = "running")
  /\ [][\A c \in ConnIds : \A j \in JobIds :
          (Selects(c) /\ WaitsFor(j, c) /\ sel'[c].job /= j) =>
            \A q \in QueueRows(j) : \A r \in QueueRows(sel'[c].job) :
              r.priority >= q.priority]_vars

\* C40's case: a job of priority 5 and a job of priority 9 that fit the same
\* worker have both been dispatched to it, and nothing is left in the queue
C40_Witness ==
  \E j \in DOMAIN jobs : \E k \in DOMAIN jobs : \E c \in DOMAIN workers :
    /\ jobs[j].priority < jobs[k].priority
    /\ jobs[j].status = "running" /\ jobs[j].worker_id = c
    /\ jobs[k].status = "running" /\ jobs[k].worker_id = c
    /\ job_queue = {}

====
